---- MODULE Spec2Model ----
(***************************************************************************)
(* Model of the spatial-query core of meshup-core:                          *)
(*   - BoundingVolumeHierarchy::from(&EditableMesh)  (the builder)          *)
(*   - BoundingVolumeHierarchy::split_node           (binned SAH split)     *)
(*   - intersects_ray_at_fast / intersects_ray_at    (the two traversals)   *)
(*   - ray_intersects_convex_plane_at / Triangle3d::intersects_ray_at       *)
(*                                                                         *)
(* Numbers.  Vertex coordinates are integers.  A coordinate is either       *)
(* "small" (|v| < Wide/2, exact in f32 and f64) or a multiple of Wide,      *)
(* where Wide stands for the magnitude 2^64: a float whose value has a      *)
(* non-zero multiple of 2^64 in it keeps no small part (24 and 53 bits of   *)
(* mantissa are both fewer than 64).  Fl is that rounding; it is applied    *)
(* wherever the source performs an f32 or f64 operation on coordinates.     *)
(* Divisions are kept exact by carrying the denominator (a centroid is      *)
(* kept as the vertex sum and the vertex count).                            *)
(*                                                                         *)
(* Control.  pc = "from" when from() is entered and "build" while its work  *)
(* loop runs, one action per turn of the loop; a panic ends in              *)
(* "from_panicked" or "build_panicked".  On a built hierarchy a query       *)
(* starts in either mode and runs one action per turn of the traversal      *)
(* loop until it has "returned" (or "query_panicked", in a build with       *)
(* debug assertions).                                                       *)
(***************************************************************************)
EXTENDS Integers, Sequences, FiniteSets, TLC

VARIABLES
    mesh,       \* the EditableMesh: sequence of faces, face handle h is mesh[h+1]
    nodes,      \* BoundingVolumeHierarchy.nodes, node index k is nodes[k+1]
    queue,      \* the builder's work queue (VecDeque<u32>)
    attempted,  \* node indices on which split_node has been called
    warned,     \* node indices for which the builder emitted warn! (split_node returned None)
    pc,         \* "from", "from_panicked", "build", "build_panicked", "built", "fast",
                \* "precise", "returned", "query_panicked"
    ray,        \* the RayCast3d of the running query
    transform,  \* the Transform of the running query
    stack,      \* the traversal stack (VecDeque<u32> used as LIFO)
    closest,    \* closest_t (fast) or closest (precise); an Option
    examined,   \* node indices popped by the running traversal, in order
    mode,       \* which traversal produced the value in closest once pc = "returned"
    call        \* a call of one of the free-standing functions: its arguments, its
                \* progress and its result (NoCall while the hierarchy is exercised)

vars == <<mesh, nodes, queue, attempted, warned, pc, ray, transform, stack, closest,
          examined, mode, call>>

-----------------------------------------------------------------------------
(* Bounds of the model *)

MaxFaces == 18

Wide == 65536

-----------------------------------------------------------------------------
(* Program constants *)

BUCKET_COUNT == 16

maximum_primitive_per_leaf == 8

-----------------------------------------------------------------------------
(* Option<T>: None is the empty tuple, Some(v) the one-element tuple *)

None == << >>

Some(v) == <<v>>

IsSome(o) == Len(o) = 1

Unwrap(o) == o[1]

\* Some(the least member) of a set of numbers, None for the empty set
MinOrNone(ts) ==
    IF ts = {} THEN None ELSE Some(CHOOSE v \in ts : \A w \in ts : v <= w)

-----------------------------------------------------------------------------
(* Arithmetic *)

MinI(a, b) == IF a <= b THEN a ELSE b

MaxI(a, b) == IF a >= b THEN a ELSE b

\* The rounding of a float result: a value with a non-zero multiple of Wide
\* (2^64) in it loses its small part, a small value is exact.
Fl(n) ==
    LET h == (2 * n + Wide) \div (2 * Wide)
    IN  IF h = 0 THEN n ELSE h * Wide

\* Vec3::min / Vec3::max, componentwise
VMin(a, b) == << MinI(a[1], b[1]), MinI(a[2], b[2]), MinI(a[3], b[3]) >>

VMax(a, b) == << MaxI(a[1], b[1]), MaxI(a[2], b[2]), MaxI(a[3], b[3]) >>

\* The fold of Aabb3d::merge (componentwise min of the mins, max of the maxes) over
\* a non-empty collection of boxes; the order of the fold does not matter.
MergeAll(boxes) ==
    LET Least(k)    == CHOOSE v \in {a.min[k] : a \in boxes} :
                           \A a \in boxes : v <= a.min[k]
        Greatest(k) == CHOOSE v \in {a.max[k] : a \in boxes} :
                           \A a \in boxes : v >= a.max[k]
    IN  [min |-> << Least(1), Least(2), Least(3) >>,
         max |-> << Greatest(1), Greatest(2), Greatest(3) >>]

\* Aabb3d::visible_area: b = max - min; b.x * (b.y + b.z) + b.y * b.z   (f32)
VisibleArea(a) ==
    LET b == << Fl(a.max[1] - a.min[1]), Fl(a.max[2] - a.min[2]),
                Fl(a.max[3] - a.min[3]) >>
    IN  Fl(Fl(b[1] * Fl(b[2] + b[3])) + Fl(b[2] * b[3]))

-----------------------------------------------------------------------------
(* The per-face caches of the builder *)

\* sum of the adjacent vertex positions on one axis, folded from Vec3::ZERO in f32;
\* the centroid is CentroidSum / Len(face)
CentroidSum(face, axis) ==
    LET F[k \in 0..Len(face)] ==
            IF k = 0 THEN 0 ELSE LET accumulator == F[k - 1]
                                 IN  Fl(face[k][axis + 1] + accumulator)
    IN  F[Len(face)]

\* face_aabb_cache entry: min/max of the adjacent vertex positions
FaceAabb(face) ==
    LET F[k \in 1..Len(face)] ==
            IF k = 1 THEN [min |-> face[1], max |-> face[1]]
            ELSE LET acc == F[k - 1]
                 IN  [min |-> VMin(face[k], acc.min), max |-> VMax(face[k], acc.max)]
    IN  F[Len(face)]

face_aabb_cache(m, h) == FaceAabb(m[h + 1])

\* mesh.structure.face_handles(): handles in increasing order
face_handles(m) == [k \in 1..Len(m) |-> k - 1]

\* seeded fault: an empty cache yields a default box instead of None
first_face_aabb_or_default(m) ==
    IF Len(m) = 0 THEN Some([min |-> <<0, 0, 0>>, max |-> <<0, 0, 0>>])
    ELSE Some(face_aabb_cache(m, 0))

\* face_aabb_cache.values().next(): None when the mesh has no face
first_face_aabb(m) == IF Len(m) = 0 THEN None ELSE Some(face_aabb_cache(m, 0))

\* root_aabb: the fold of merge over face_aabb_cache.values(), from the first value
RootAabb(m) ==
    MergeAll({Unwrap(first_face_aabb(m))} \cup {FaceAabb(m[k]) : k \in 1..Len(m)})

\* the seed node pushed before the work loop
RootLeaf(m) ==
    [kind |-> "Leaf", aabb |-> RootAabb(m), primitive_list |-> face_handles(m)]

-----------------------------------------------------------------------------
(* split_node *)

\* ((centroid[axis] as f64 - min) / (max - min) * BUCKET_COUNT as f64)
\*     .min(BUCKET_COUNT as f64 - 1.0) as usize
\* with x = centroid - min and range = max - min, both times the vertex count n.
\* A zero range divides by zero: 0/0 is NaN and x/0 is +inf for x > 0, both of which
\* .min(15.0) turns into 15; a negative quotient (-inf included) casts to 0.
IndexOf(x, range, n) ==
    IF x < 0 THEN 0
    ELSE IF range = 0 THEN BUCKET_COUNT - 1
    ELSE MinI((x * BUCKET_COUNT) \div (n * range), BUCKET_COUNT - 1)

bucket_index(m, h, axis, root_aabb) ==
    IndexOf(Fl(CentroidSum(m[h + 1], axis) - Len(m[h + 1]) * root_aabb.min[axis + 1]),
            Fl(root_aabb.max[axis + 1] - root_aabb.min[axis + 1]),
            Len(m[h + 1]))

\* one bucket after the loop over root_primitive_list: it counts its members
\* (positions in the list) and merges their boxes
BucketOf(m, plist, members) ==
    [primitive_count |-> Cardinality(members),
     aabb |-> IF members = {} THEN None
              ELSE Some(MergeAll({face_aabb_cache(m, plist[k]) : k \in members}))]

\* the buckets of one axis: bucket b holds the faces whose bucket_index is b
Buckets(m, plist, axis, root_aabb) ==
    [b \in 0..(BUCKET_COUNT - 1) |->
        BucketOf(m, plist, {k \in 1..Len(plist) :
                               bucket_index(m, plist[k], axis, root_aabb) = b})]

\* u32 addition of the primitive counts of the buckets lo..hi-1: the number of
\* (bucket, member) pairs
SumCounts(buckets, lo, hi) ==
    Cardinality(UNION {{<<b, j>> : j \in 1..buckets[b].primitive_count} :
                          b \in lo..(hi - 1)})

\* the boxes of the non-empty buckets among lo..hi-1
FilledBoxes(buckets, lo, hi) ==
    {Unwrap(buckets[b].aabb) : b \in {c \in lo..(hi - 1) : IsSome(buckets[c].aabb)}}

MergedOrNone(boxes) == IF boxes = {} THEN None ELSE Some(MergeAll(boxes))

\* buckets[lo..hi].iter().fold(Bucket::default(), ...): the counts are added, the
\* boxes of the non-empty buckets are merged
Combined(buckets, lo, hi) ==
    [primitive_count |-> SumCounts(buckets, lo, hi),
     aabb |-> MergedOrNone(FilledBoxes(buckets, lo, hi))]

\* split_cost = (left.area / root_area) * left.count + (right.area / root_area) * right.count
\* kept as the numerator over root_area; a zero root_area makes it 0/0 = NaN.
SplitCost(left, right, root_aabb) ==
    [nan |-> VisibleArea(root_aabb) = 0,
     num |-> Fl(Fl(VisibleArea(Unwrap(left.aabb)) * left.primitive_count)
                + Fl(VisibleArea(Unwrap(right.aabb)) * right.primitive_count))]

\* split_cost < value on f32: false as soon as one side is NaN
CostLess(c, value) == ~c.nan /\ ~value.nan /\ c.num < value.num

\* min + ((i as f64 / BUCKET_COUNT as f64) * range), kept times BUCKET_COUNT
SplitPosition(root_aabb, axis, i) ==
    Fl(BUCKET_COUNT * root_aabb.min[axis + 1]
       + i * Fl(root_aabb.max[axis + 1] - root_aabb.min[axis + 1]))

\* the inner loop body once left and right are folded: "skip" (continue), "panic"
\* (an assert_eq! on an empty aggregate fails) or the candidate's values
CandidateOf(left, right, root_aabb, axis, i) ==
    IF ~IsSome(left.aabb)
    THEN [tag |-> IF left.primitive_count = 0 THEN "skip" ELSE "panic"]
    ELSE IF ~IsSome(right.aabb)
    THEN [tag |-> IF right.primitive_count = 0 THEN "skip" ELSE "panic"]
    ELSE [tag |-> "candidate",
          best_split_axis |-> axis,
          best_split_position |-> SplitPosition(root_aabb, axis, i),
          best_split_cost |-> SplitCost(left, right, root_aabb),
          best_split_left_size |-> left.primitive_count,
          best_split_right_size |-> right.primitive_count,
          best_split_left_aabb |-> Unwrap(left.aabb),
          best_split_right_aabb |-> Unwrap(right.aabb)]

\* one pass of the inner loop body for (axis, i); buckets are those of the axis
Candidate(buckets, root_aabb, axis, i) ==
    CandidateOf(Combined(buckets, 0, i), Combined(buckets, i, BUCKET_COUNT),
                root_aabb, axis, i)

\* seeded fault: a candidate of equal cost replaces the best so far
KeepBestOrEqual(prev, c) ==
    IF prev.tag = "panic" \/ c.tag = "skip" THEN prev
    ELSE IF c.tag = "panic" THEN c
    ELSE IF prev.tag = "none" THEN c
    ELSE IF ~CostLess(prev.best_split_cost, c.best_split_cost) THEN c
    ELSE prev

\* the update of the best_split_* variables by one candidate
KeepBest(prev, c) ==
    IF prev.tag = "panic" \/ c.tag = "skip" THEN prev
    ELSE IF c.tag = "panic" THEN c
    ELSE IF prev.tag = "none" THEN c
    ELSE IF CostLess(c.best_split_cost, prev.best_split_cost) THEN c
    ELSE prev

\* for i in 1..(BUCKET_COUNT - 1), on one axis, starting from the best so far:
\* the value of the best_split_* variables after the pass for i
RECURSIVE BoundaryLoop(_, _, _, _, _)
BoundaryLoop(buckets, root_aabb, axis, best, i) ==
    IF i = 0 THEN best
    ELSE KeepBest(BoundaryLoop(buckets, root_aabb, axis, best, i - 1),
                  Candidate(buckets, root_aabb, axis, i))

\* one pass of the outer loop.  (The bucket table is compared with itself so that
\* it is computed once, not once per lookup.)
AxisPass(best, buckets, root_aabb, axis) ==
    IF best.tag = "panic" \/ buckets # buckets THEN best
    ELSE BoundaryLoop(buckets, root_aabb, axis, best, BUCKET_COUNT - 2)

\* for axis in 0..3: the best_split_* variables after the pass for axis
RECURSIVE AxisLoop(_, _, _, _)
AxisLoop(m, plist, root_aabb, axis) ==
    IF axis < 0 THEN [tag |-> "none"]
    ELSE AxisPass(AxisLoop(m, plist, root_aabb, axis - 1),
                  Buckets(m, plist, axis, root_aabb), root_aabb, axis)

\* the search of split_node: [tag |-> "none"], [tag |-> "panic"] or the best candidate
BestSplit(m, plist, root_aabb) == AxisLoop(m, plist, root_aabb, 2)

\* (centroid[best_split_axis] as f64) < best_split_position
GoesLeft(m, h, best) ==
    BUCKET_COUNT * CentroidSum(m[h + 1], best.best_split_axis)
        < Len(m[h + 1]) * best.best_split_position

left_primitive_list(m, plist, best) ==
    LET L(h) == GoesLeft(m, h, best) IN SelectSeq(plist, L)

right_primitive_list(m, plist, best) ==
    LET R(h) == ~GoesLeft(m, h, best) IN SelectSeq(plist, R)

\* the three assert_eq! after the partition
SplitAsserts(plist, best, left, right) ==
    /\ Len(plist) = best.best_split_left_size + best.best_split_right_size
    /\ Len(left) = best.best_split_left_size
    /\ Len(right) = best.best_split_right_size

\* seeded fault: both pushed leaves are given the left list
PushChildrenSameList(ns, node_index, best, left, right) ==
    [(ns \o << [kind |-> "Leaf", aabb |-> best.best_split_left_aabb,
                primitive_list |-> left],
               [kind |-> "Leaf", aabb |-> best.best_split_right_aabb,
                primitive_list |-> left] >>)
        EXCEPT ![node_index + 1] =
            [kind |-> "NonLeaf", left |-> Len(ns), right |-> Len(ns) + 1,
             aabb |-> ns[node_index + 1].aabb]]

\* seeded fault: the two pushed leaves are given each other's box
PushChildrenSwappedBoxes(ns, node_index, best, left, right) ==
    [(ns \o << [kind |-> "Leaf", aabb |-> best.best_split_right_aabb,
                primitive_list |-> left],
               [kind |-> "Leaf", aabb |-> best.best_split_left_aabb,
                primitive_list |-> right] >>)
        EXCEPT ![node_index + 1] =
            [kind |-> "NonLeaf", left |-> Len(ns), right |-> Len(ns) + 1,
             aabb |-> ns[node_index + 1].aabb]]

\* seeded fault: the split node is not overwritten by a NonLeaf
PushChildrenKeepsLeaf(ns, node_index, best, left, right) ==
    ns \o << [kind |-> "Leaf", aabb |-> best.best_split_left_aabb,
              primitive_list |-> left],
             [kind |-> "Leaf", aabb |-> best.best_split_right_aabb,
              primitive_list |-> right] >>

\* seeded fault: both pushed leaves are given the box of the node that is split
PushChildrenLooseBoxes(ns, node_index, best, left, right) ==
    [(ns \o << [kind |-> "Leaf", aabb |-> ns[node_index + 1].aabb,
                primitive_list |-> left],
               [kind |-> "Leaf", aabb |-> ns[node_index + 1].aabb,
                primitive_list |-> right] >>)
        EXCEPT ![node_index + 1] =
            [kind |-> "NonLeaf", left |-> Len(ns), right |-> Len(ns) + 1,
             aabb |-> ns[node_index + 1].aabb]]

\* seeded fault: the NonLeaf names the left child twice
PushChildrenTwin(ns, node_index, best, left, right) ==
    [(ns \o << [kind |-> "Leaf", aabb |-> best.best_split_left_aabb,
                primitive_list |-> left],
               [kind |-> "Leaf", aabb |-> best.best_split_right_aabb,
                primitive_list |-> right] >>)
        EXCEPT ![node_index + 1] =
            [kind |-> "NonLeaf", left |-> Len(ns), right |-> Len(ns),
             aabb |-> ns[node_index + 1].aabb]]

\* the node array after a successful split of node_index
PushChildren(ns, node_index, best, left, right) ==
    [(ns \o << [kind |-> "Leaf", aabb |-> best.best_split_left_aabb,
                primitive_list |-> left],
               [kind |-> "Leaf", aabb |-> best.best_split_right_aabb,
                primitive_list |-> right] >>)
        EXCEPT ![node_index + 1] =
            [kind |-> "NonLeaf", left |-> Len(ns), right |-> Len(ns) + 1,
             aabb |-> ns[node_index + 1].aabb]]

\* the end of split_node: the asserts, then the two pushes and the overwrite
Partitioned(ns, node_index, best, left, right) ==
    IF ~SplitAsserts(ns[node_index + 1].primitive_list, best, left, right)
    THEN [tag |-> "panic"]
    ELSE [tag |-> "Some",
          nodes |-> PushChildren(ns, node_index, best, left, right),
          left |-> Len(ns), right |-> Len(ns) + 1]

\* split_node once the search is done
SplitAt(ns, m, node_index, best) ==
    IF best.tag = "none" THEN [tag |-> "None"]
    ELSE IF best.tag = "panic" THEN [tag |-> "panic"]
    ELSE Partitioned(ns, node_index, best,
                     left_primitive_list(m, ns[node_index + 1].primitive_list, best),
                     right_primitive_list(m, ns[node_index + 1].primitive_list, best))

\* split_node(node_index, ..): tag "Some" with the new node array and child indices,
\* "None" (no candidate), or "panic" (a failed assert_eq!, or the node is no leaf)
split_node(ns, m, node_index) ==
    IF ns[node_index + 1].kind # "Leaf" THEN [tag |-> "panic"]
    ELSE SplitAt(ns, m, node_index,
                 BestSplit(m, ns[node_index + 1].primitive_list, ns[node_index + 1].aabb))

-----------------------------------------------------------------------------
(* Ray casts.  Ray directions are unit vectors along an axis and every       *)
(* coordinate of a queried mesh is a small integer, so that each f32          *)
(* operation below is exact: 1.0 / a is exact because a is a power of two     *)
(* (twice the area of a triangle with legs 2 or 8, times the scale), and      *)
(* every hit distance is an integer.                                          *)

Dot(a, b) == a[1] * b[1] + a[2] * b[2] + a[3] * b[3]

Cross(a, b) ==
    << a[2] * b[3] - a[3] * b[2], a[3] * b[1] - a[1] * b[3], a[1] * b[2] - a[2] * b[1] >>

Sub(a, b) == << a[1] - b[1], a[2] - b[2], a[3] - b[3] >>

\* Quat::mul_vec3: the identity, the half turn about z, and the third of a turn
\* about (1, 1, 1), Quat::from_xyzw(0.5, 0.5, 0.5, 0.5), which takes x to y, y to z
\* and z to x, with its inverse (all exact in f32)
mul_vec3(rotation, v) ==
    IF rotation = "half_turn_z" THEN << -v[1], -v[2], v[3] >>
    ELSE IF rotation = "third_turn_xyz" THEN << v[3], v[1], v[2] >>
    ELSE IF rotation = "third_turn_zyx" THEN << v[2], v[3], v[1] >>
    ELSE v

\* Quat::inverse
inverse(rotation) ==
    IF rotation = "third_turn_xyz" THEN "third_turn_zyx"
    ELSE IF rotation = "third_turn_zyx" THEN "third_turn_xyz"
    ELSE rotation

\* RayCast3d::new(rotation.mul_vec3(origin), rotation.mul_vec3(direction), ray.max)
transformed_ray(r, t) ==
    [origin    |-> mul_vec3(t.rotation, r.origin),
     direction |-> mul_vec3(t.rotation, r.direction),
     max       |-> r.max]

\* aabb.half_size() * transform.scale has a negative component: the
\* debug_assert! of Aabb3d::new fails in a build with debug assertions
NegativeHalfSize(aabb, t) ==
    \E k \in 1..3 : (aabb.max[k] - aabb.min[k]) * t.scale[k] < 0

\* Aabb3d::new(aabb.center() * scale + translation, aabb.half_size() * scale):
\* min = center - half_size, max = center + half_size  (center and half_size are
\* kept doubled; the sums are even)
TransformedAabb(aabb, t) ==
    LET center2(k) == (aabb.min[k] + aabb.max[k]) * t.scale[k] + 2 * t.translation[k]
        half2(k)   == (aabb.max[k] - aabb.min[k]) * t.scale[k]
        lo(k)      == (center2(k) - half2(k)) \div 2
        hi(k)      == (center2(k) + half2(k)) \div 2
    IN  [min |-> << lo(1), lo(2), lo(3) >>, max |-> << hi(1), hi(2), hi(3) >>]

\* RayCast3d::aabb_intersection_at.  On an axis the ray moves along, direction_recip
\* is the direction (+1 or -1).  On an axis it does not move along, direction_recip is
\* infinite: tmin/tmax are -inf/+inf when min < origin < max, NaN (ignored by max/min)
\* when origin is on the bound, and +inf/-inf (no hit) when the origin is outside.
aabb_intersection_at(r, aabb) ==
    LET moving  == {k \in 1..3 : r.direction[k] # 0}
        near(k) == IF r.direction[k] > 0 THEN aabb.min[k] ELSE aabb.max[k]
        far(k)  == IF r.direction[k] > 0 THEN aabb.max[k] ELSE aabb.min[k]
        inside  == \A k \in (1..3) \ moving :
                       aabb.min[k] <= r.origin[k] /\ r.origin[k] <= aabb.max[k]
        tmins   == {(near(k) - r.origin[k]) * r.direction[k] : k \in moving} \cup {0}
        tmaxs   == {(far(k) - r.origin[k]) * r.direction[k] : k \in moving} \cup {r.max}
        tmin    == CHOOSE v \in tmins : \A w \in tmins : v >= w
        tmax    == CHOOSE v \in tmaxs : \A w \in tmaxs : v <= w
    IN  IF inside /\ tmin <= tmax THEN Some(tmin) ELSE None

\* Node::intersects_ray (the box is built even when the half size is negative,
\* as a build without debug assertions does)
intersects_ray(node, r, t) == aabb_intersection_at(r, TransformedAabb(node.aabb, t))

\* Triangle3d::intersects_ray_at.  a is an integer, so |a| < 0.00001 is a = 0;
\* u = U/a, v = V/a and t = T/a are compared after multiplying by a * a > 0.
Triangle3d_intersects_ray_at(vertices, r) ==
    LET edge1 == Sub(vertices[2], vertices[1])
        edge2 == Sub(vertices[3], vertices[1])
        h     == Cross(r.direction, edge2)
        a     == Dot(edge1, h)
        s     == Sub(r.origin, vertices[1])
        U     == Dot(s, h)
        q     == Cross(s, edge1)
        V     == Dot(r.direction, q)
        T     == Dot(edge2, q)
    IN  IF a = 0 THEN None
        ELSE IF U * a < 0 \/ U * a > a * a THEN None
        ELSE IF V * a < 0 \/ (U + V) * a > a * a THEN None
        ELSE IF T * a > 0 THEN Some(T \div a)
        ELSE None

\* vertex * transform.scale + transform.translation
TransformPoint(v, t) ==
    << v[1] * t.scale[1] + t.translation[1],
       v[2] * t.scale[2] + t.translation[2],
       v[3] * t.scale[3] + t.translation[3] >>

\* seeded fault: only the first triangle of the fan is tested
ray_intersects_first_triangle_at(r, t, vertices) ==
    LET triangle == << TransformPoint(vertices[1], t), TransformPoint(vertices[2], t),
                       TransformPoint(vertices[3], t) >>
        result == Triangle3d_intersects_ray_at(triangle, r)
    IN  IF IsSome(result) /\ Unwrap(result) < r.max THEN result ELSE None

\* ray_intersects_convex_plane_at: the fan of triangles (first, v[i], v[i+1]); the
\* first triangle that is hit decides
ray_intersects_convex_plane_at(r, t, vertices) ==
    LET Fan[i \in 2..Len(vertices)] ==
            IF i = Len(vertices) THEN None
            ELSE LET triangle == << TransformPoint(vertices[1], t),
                                    TransformPoint(vertices[i], t),
                                    TransformPoint(vertices[i + 1], t) >>
                     result == Triangle3d_intersects_ray_at(triangle, r)
                 IN  IF IsSome(result)
                     THEN IF Unwrap(result) < r.max THEN result ELSE None
                     ELSE Fan[i + 1]
    IN  Fan[2]

\* the loop over node.primitives() of intersects_ray_at, from the closest so far:
\* a hit replaces closest when there is none yet or when it is strictly nearer
ScanPrimitives(m, primitive_list, r, t, start) ==
    LET S[k \in 0..Len(primitive_list)] ==
            IF k = 0 THEN start
            ELSE LET acc == S[k - 1]
                     hit == ray_intersects_convex_plane_at(r, t, m[primitive_list[k] + 1])
                 IN  IF IsSome(hit) /\ (~IsSome(acc) \/ Unwrap(hit) < Unwrap(acc)[2])
                     THEN Some(<< primitive_list[k], Unwrap(hit) >>)
                     ELSE acc
    IN  S[Len(primitive_list)]

\* seeded fault: the left child is pushed twice
PushChildrenLeftTwice(rest, left, right, left_t, right_t) == rest \o << left, left >>

\* seeded fault: the nearer child is pushed first
PushChildrenNearerFirst(rest, left, right, left_t, right_t) ==
    IF IsSome(left_t) /\ IsSome(right_t) /\ Unwrap(left_t) < Unwrap(right_t)
    THEN rest \o << left, right >>
    ELSE rest \o << right, left >>

\* the order in which the children of a NonLeaf are pushed (the last pushed is
\* popped first)
PushChildrenOrdered(rest, left, right, left_t, right_t) ==
    IF IsSome(left_t) /\ IsSome(right_t) /\ Unwrap(left_t) < Unwrap(right_t)
    THEN rest \o << right, left >>
    ELSE rest \o << left, right >>

-----------------------------------------------------------------------------
(* The meshes the builder is run on.  Every face is a triangle with its own    *)
(* three vertices (EditableMesh::from welds nothing).                          *)

\* a triangle in the plane z = 0 with its right angle at (x, 0, 0)
Flat(x) == << <<x, 0, 0>>, <<x + 8, 0, 0>>, <<x, 8, 0>> >>

\* a triangle in the plane of constant x
Thin(x) == << <<x, 0, 0>>, <<x, 2, 0>>, <<x, 0, 2>> >>

Layouts == {"strip", "coincident", "thin", "wide"}

\* strip:      overlapping triangles marching along x (faces straddle bin boundaries)
\* coincident: n copies of one triangle (all centroids coincide)
\* thin:       two stacks of triangles, at x = 0 and at x = 4
\* wide:       thin triangles whose x spans -2^67 .. 2^67, most at -2^64, one at -1
Mesh(layout, n) ==
    [k \in 1..n |->
        CASE layout = "strip"      -> Flat(2 * (k - 1))
          [] layout = "coincident" -> Flat(0)
          [] layout = "thin"       -> Thin(4 * ((k - 1) % 2))
          [] layout = "wide"       -> IF k = 1 THEN Thin(-8 * Wide)
                                      ELSE IF k = 2 THEN Thin(8 * Wide)
                                      ELSE IF k = 3 THEN Thin(-1)
                                      ELSE Thin(-Wide)]

\* the meshes of 1..MaxFaces faces, and the mesh without a face
Meshes == {Mesh(layout, n) : layout \in Layouts, n \in 1..MaxFaces} \cup {<< >>}

\* every coordinate of the mesh is small
IsSmall(m) ==
    \A k \in 1..Len(m) : \A v \in 1..Len(m[k]) : \A c \in 1..3 :
        2 * m[k][v][c] < Wide /\ 2 * m[k][v][c] > -Wide

-----------------------------------------------------------------------------
(* BoundingVolumeHierarchy::from(&EditableMesh) *)

NoRay == [origin |-> <<0, 0, 0>>, direction |-> <<0, 0, 0>>, max |-> 0]

NoTransform ==
    [translation |-> <<0, 0, 0>>, scale |-> <<1, 1, 1>>, rotation |-> "identity"]

NoCall == [fn |-> "none"]

\* the state when from() is entered: BoundingVolumeHierarchy::new() has no node yet
Init ==
    /\ mesh \in Meshes
    /\ nodes = << >>
    /\ queue = << >>
    /\ attempted = {}
    /\ warned = {}
    /\ pc = "from"
    /\ ray = NoRay
    /\ transform = NoTransform
    /\ stack = << >>
    /\ closest = None
    /\ examined = << >>
    /\ mode = "none"
    /\ call = NoCall

QueryUnchanged == UNCHANGED <<ray, transform, stack, closest, examined, mode, call>>

\* from() up to the work loop: the caches are filled, the root leaf is pushed and
\* index 0 is queued
SeedRoot ==
    /\ pc = "from"
    /\ IsSome(first_face_aabb(mesh))
    /\ nodes' = << RootLeaf(mesh) >>
    /\ queue' = << 0 >>
    /\ pc' = "build"
    /\ UNCHANGED <<mesh, attempted, warned>>
    /\ QueryUnchanged

\* from() on a mesh without a face: face_aabbs.next().unwrap() panics
UnwrapPanics ==
    /\ pc = "from"
    /\ ~IsSome(first_face_aabb(mesh))
    /\ pc' = "from_panicked"
    /\ UNCHANGED <<mesh, nodes, queue, attempted, warned>>
    /\ QueryUnchanged

\* seeded fault: the threshold is ten times too large
IsTerminalTenfold(primitive_count) == primitive_count <= 10 * maximum_primitive_per_leaf

\* primitive_count <= maximum_primitive_per_leaf
IsTerminal(primitive_count) == primitive_count <= maximum_primitive_per_leaf

\* one turn of the work loop: the popped leaf is small enough and is left alone
LeafTerminal ==
    /\ pc = "build" /\ queue # << >>
    /\ nodes[Head(queue) + 1].kind = "Leaf"
    /\ IsTerminal(Len(nodes[Head(queue) + 1].primitive_list))
    /\ queue' = Tail(queue)
    /\ UNCHANGED <<mesh, nodes, attempted, warned, pc>>
    /\ QueryUnchanged

\* Some((left, right)) => { queue.push_back(left); queue.push_back(right); }
Splits(r) ==
    /\ r.tag = "Some"
    /\ nodes' = r.nodes
    /\ queue' = Tail(queue) \o <<r.left, r.right>>

\* one turn of the work loop: split_node returns Some((left, right))
SplitSucceeds ==
    /\ pc = "build" /\ queue # << >>
    /\ nodes[Head(queue) + 1].kind = "Leaf"
    /\ ~IsTerminal(Len(nodes[Head(queue) + 1].primitive_list))
    /\ Splits(split_node(nodes, mesh, Head(queue)))
    /\ attempted' = attempted \cup {Head(queue)}
    /\ UNCHANGED <<mesh, warned, pc>>
    /\ QueryUnchanged

\* seeded fault: a node that could not be split is queued again
SplitFailsRequeues ==
    /\ pc = "build" /\ queue # << >>
    /\ nodes[Head(queue) + 1].kind = "Leaf"
    /\ ~IsTerminal(Len(nodes[Head(queue) + 1].primitive_list))
    /\ split_node(nodes, mesh, Head(queue)).tag = "None"
    /\ queue' = Append(Tail(queue), Head(queue))
    /\ attempted' = attempted \cup {Head(queue)}
    /\ warned' = warned \cup {Head(queue)}
    /\ UNCHANGED <<mesh, nodes, pc>>
    /\ QueryUnchanged

\* one turn of the work loop: split_node returns None and the warning is logged
SplitFails ==
    /\ pc = "build" /\ queue # << >>
    /\ nodes[Head(queue) + 1].kind = "Leaf"
    /\ ~IsTerminal(Len(nodes[Head(queue) + 1].primitive_list))
    /\ split_node(nodes, mesh, Head(queue)).tag = "None"
    /\ queue' = Tail(queue)
    /\ attempted' = attempted \cup {Head(queue)}
    /\ warned' = warned \cup {Head(queue)}
    /\ UNCHANGED <<mesh, nodes, pc>>
    /\ QueryUnchanged

\* one turn of the work loop: the node is popped and an assert_eq! of split_node
\* fails
BuildPanics ==
    /\ pc = "build" /\ queue # << >>
    /\ nodes[Head(queue) + 1].kind = "Leaf"
    /\ ~IsTerminal(Len(nodes[Head(queue) + 1].primitive_list))
    /\ split_node(nodes, mesh, Head(queue)).tag = "panic"
    /\ queue' = Tail(queue)
    /\ pc' = "build_panicked"
    /\ attempted' = attempted \cup {Head(queue)}
    /\ UNCHANGED <<mesh, nodes, warned>>
    /\ QueryUnchanged

\* the queue is empty: from() returns the BVH
BuildReturns ==
    /\ pc = "build" /\ queue = << >>
    /\ pc' = "built"
    /\ UNCHANGED <<mesh, nodes, queue, attempted, warned>>
    /\ QueryUnchanged

Build ==
    \/ SeedRoot \/ UnwrapPanics
    \/ LeafTerminal \/ SplitSucceeds \/ SplitFails \/ BuildPanics \/ BuildReturns

-----------------------------------------------------------------------------
(* intersects_ray_at_fast and intersects_ray_at on the built hierarchy *)

\* RayCast3d::from_ray(ray, 1000.0) as the callers build it, and one short ray
Rays ==
    { [origin |-> <<9, 1, 5>>,   direction |-> <<0, 0, -1>>, max |-> 1000],
      [origin |-> <<9, 1, 5>>,   direction |-> <<0, 0, -1>>, max |-> 5],
      [origin |-> <<1, 1, 5>>,   direction |-> <<0, 0, -1>>, max |-> 1000],
      [origin |-> <<-9, -1, 5>>, direction |-> <<0, 0, -1>>, max |-> 1000],
      [origin |-> <<9, 1, 5>>,   direction |-> <<0, 0, 1>>,  max |-> 1000],
      [origin |-> <<-6, 1, 0>>,  direction |-> <<1, 0, 0>>,  max |-> 1000],
      [origin |-> <<9, 1, 0>>,   direction |-> <<-1, 0, 0>>, max |-> 1000] }

\* the Transform of the entity: as spawned, moved and scaled up, mirrored in x
\* (a scale tool drag through zero), turned half around z
Transforms ==
    { NoTransform,
      [translation |-> <<1, 0, 0>>, scale |-> <<2, 2, 2>>,  rotation |-> "identity"],
      [translation |-> <<0, 0, 0>>, scale |-> <<-1, 1, 1>>, rotation |-> "identity"],
      [translation |-> <<0, 0, 0>>, scale |-> <<1, 1, 1>>,  rotation |-> "half_turn_z"] }

BuildUnchanged == UNCHANGED <<mesh, nodes, queue, attempted, warned, call>>

Top == stack[Len(stack)]

Rest == SubSeq(stack, 1, Len(stack) - 1)

InLoop == pc \in {"fast", "precise"} /\ stack # << >>

\* the t of node.intersects_ray(&transformed_ray, transform) for the popped node
TopT == intersects_ray(nodes[Top + 1], transformed_ray(ray, transform), transform)

\* if let Some(value) = closest { if t > value { continue; } }
Pruned(t) ==
    /\ IsSome(closest)
    /\ t > (IF mode = "precise" THEN Unwrap(closest)[2] ELSE Unwrap(closest))

\* a call of intersects_ray_at_fast: stack.push_back(0), closest_t = None.  Queries
\* are run on the meshes whose coordinates are small, where the ray casts are exact.
StartFast ==
    /\ pc = "built" /\ IsSmall(mesh)
    /\ ray' \in Rays
    /\ transform' \in Transforms
    /\ stack' = << 0 >>
    /\ closest' = None
    /\ examined' = << >>
    /\ mode' = "fast"
    /\ pc' = "fast"
    /\ BuildUnchanged

\* a call of intersects_ray_at: stack.push_back(0), closest = None
StartPrecise ==
    /\ pc = "built" /\ IsSmall(mesh)
    /\ ray' \in Rays
    /\ transform' \in Transforms
    /\ stack' = << 0 >>
    /\ closest' = None
    /\ examined' = << >>
    /\ mode' = "precise"
    /\ pc' = "precise"
    /\ BuildUnchanged

\* seeded fault: a NonLeaf whose box is not hit still has its children pushed
NodeMissedDescends ==
    /\ InLoop
    /\ ~IsSome(TopT)
    /\ stack' = IF nodes[Top + 1].kind = "NonLeaf"
                THEN Rest \o << nodes[Top + 1].left, nodes[Top + 1].right >>
                ELSE Rest
    /\ examined' = Append(examined, Top)
    /\ UNCHANGED <<ray, transform, closest, mode, pc>>
    /\ BuildUnchanged

\* one turn of the loop: the popped node's box is not hit (None => {})
NodeMissed ==
    /\ InLoop
    /\ ~IsSome(TopT)
    /\ stack' = Rest
    /\ examined' = Append(examined, Top)
    /\ UNCHANGED <<ray, transform, closest, mode, pc>>
    /\ BuildUnchanged

\* one turn of the loop: the popped node is entered farther than the closest (continue)
NodePruned ==
    /\ InLoop
    /\ IsSome(TopT) /\ Pruned(Unwrap(TopT))
    /\ stack' = Rest
    /\ examined' = Append(examined, Top)
    /\ UNCHANGED <<ray, transform, closest, mode, pc>>
    /\ BuildUnchanged

\* one turn of the fast loop on a leaf:
\* closest_t = Some(closest_t.unwrap_or(f32::MAX).min(t))
FastLeaf ==
    /\ InLoop /\ pc = "fast"
    /\ IsSome(TopT) /\ ~Pruned(Unwrap(TopT))
    /\ nodes[Top + 1].kind = "Leaf"
    /\ closest' = Some(IF IsSome(closest) THEN MinI(Unwrap(closest), Unwrap(TopT))
                       ELSE Unwrap(TopT))
    /\ stack' = Rest
    /\ examined' = Append(examined, Top)
    /\ UNCHANGED <<ray, transform, mode, pc>>
    /\ BuildUnchanged

\* one turn of the precise loop on a leaf: every face of the leaf is tested
PreciseLeaf ==
    /\ InLoop /\ pc = "precise"
    /\ IsSome(TopT) /\ ~Pruned(Unwrap(TopT))
    /\ nodes[Top + 1].kind = "Leaf"
    /\ closest' = ScanPrimitives(mesh, nodes[Top + 1].primitive_list,
                                 transformed_ray(ray, transform), transform, closest)
    /\ stack' = Rest
    /\ examined' = Append(examined, Top)
    /\ UNCHANGED <<ray, transform, mode, pc>>
    /\ BuildUnchanged

\* one turn of either loop on a NonLeaf: both children's boxes are tested and the
\* children are pushed, the nearer one last
Descend ==
    /\ InLoop
    /\ IsSome(TopT) /\ ~Pruned(Unwrap(TopT))
    /\ nodes[Top + 1].kind = "NonLeaf"
    /\ LET left    == nodes[Top + 1].left
           right   == nodes[Top + 1].right
           r       == transformed_ray(ray, transform)
           left_t  == intersects_ray(nodes[left + 1], r, transform)
           right_t == intersects_ray(nodes[right + 1], r, transform)
       IN  /\ stack' = PushChildrenOrdered(Rest, left, right, left_t, right_t)
           /\ examined' = examined \o << Top, left, right >>
    /\ UNCHANGED <<ray, transform, closest, mode, pc>>
    /\ BuildUnchanged

\* one turn of either loop in a build with debug assertions: Aabb3d::new is given a
\* negative half size for the popped node and panics
QueryPanics ==
    /\ InLoop
    /\ NegativeHalfSize(nodes[Top + 1].aabb, transform)
    /\ pc' = "query_panicked"
    /\ examined' = Append(examined, Top)
    /\ UNCHANGED <<ray, transform, stack, closest, mode>>
    /\ BuildUnchanged

\* the stack is empty: the traversal returns closest_t / closest
QueryReturns ==
    /\ pc \in {"fast", "precise"} /\ stack = << >>
    /\ pc' = "returned"
    /\ UNCHANGED <<ray, transform, stack, closest, examined, mode>>
    /\ BuildUnchanged

Traverse == NodeMissed \/ NodePruned \/ FastLeaf \/ PreciseLeaf \/ Descend

Query == StartFast \/ StartPrecise \/ Traverse \/ QueryPanics \/ QueryReturns

Next == Build \/ Query

Spec == Init /\ [][Next]_vars

\* the popped leaf is over the threshold: the turn of the loop calls split_node
SplitDue ==
    /\ pc = "build" /\ queue # << >>
    /\ ~IsTerminal(Len(nodes[Head(queue) + 1].primitive_list))

\* a turn of the loop that calls split_node, whatever it returns
SplitTurn == SplitSucceeds \/ SplitFails \/ BuildPanics

\* from() is straight-line code in one thread: a step of it that can be taken is
\* taken.  For the turns that call split_node the weak fairness is written out,
\* WF_vars(SplitTurn) being []<>(~ENABLED <<SplitTurn>>_vars) \/ []<><<SplitTurn>>_vars
\* and SplitTurn being enabled exactly when SplitDue holds.
FairSpec ==
    /\ Spec
    /\ WF_vars(SeedRoot) /\ WF_vars(UnwrapPanics)
    /\ WF_vars(LeafTerminal) /\ WF_vars(BuildReturns)
    /\ ([]<>(~SplitDue) \/ []<><<SplitTurn>>_vars)

\* a traversal is a loop in one thread: a turn that can be taken is taken, and the
\* function returns once the stack is empty.  WF_vars(Traverse) is written out,
\* Traverse being enabled exactly when InLoop holds.
FairQuerySpec ==
    /\ Spec
    /\ WF_vars(QueryReturns)
    /\ ([]<>(~InLoop) \/ []<><<Traverse>>_vars)

-----------------------------------------------------------------------------
(* The free-standing functions, each called on its own: the variables of the  *)
(* hierarchy are idle, call holds the arguments and, once the function has     *)
(* returned, its result.                                                       *)

Idle ==
    /\ mesh = << >> /\ nodes = << >> /\ queue = << >>
    /\ attempted = {} /\ warned = {} /\ pc = "idle"
    /\ ray = NoRay /\ transform = NoTransform
    /\ stack = << >> /\ closest = None /\ examined = << >> /\ mode = "none"

IdleUnchanged ==
    UNCHANGED <<mesh, nodes, queue, attempted, warned, pc, ray, transform, stack,
                closest, examined, mode>>

-----------------------------------------------------------------------------
(* ray_intersects_convex_plane_at on its own.  The coordinates of these calls  *)
(* are in halves (2 stands for 1.0, 2000 for the range 1000.0 of the callers), *)
(* so that the origin (0.5, 0.5, 1) of the unit test is on the grid.  The      *)
(* sides of the polygons are 1.0 and 2.0: the determinant a is a power of two  *)
(* and every f32 operation of the test is exact.                               *)

MaxOffset == 5

\* x and y of the ray origins: the odd halves -0.5, 0.5, 1.5, 2.5
Offsets == {k \in (-1)..MaxOffset : k % 2 = 1}

\* z of the ray origins: 1.0, 5.0, 1000.0, 1500.0
Heights == {2, 10, 2000, 3000}

\* the rectangle (0,0,0), (w,0,0), (w,d,0), (0,d,0), counter-clockwise seen from +z
Quad(w, d) == << <<0, 0, 0>>, <<w, 0, 0>>, <<w, d, 0>>, <<0, d, 0>> >>

\* the quad of test_ray_intersect_convex_plane
UnitQuad == Quad(2, 2)

Polygons ==
    { UnitQuad, Quad(4, 2), Quad(2, 4),
      << <<0, 0, 0>>, <<0, 2, 0>>, <<2, 2, 0>>, <<2, 0, 0>> >>,
      << <<0, 0, 0>>, <<4, 0, 0>>, <<0, 4, 0>> >> }

PlaneRays ==
    { [origin |-> <<x, y, h>>, direction |-> <<0, 0, dz>>, max |-> m] :
        x \in Offsets, y \in Offsets, h \in Heights, dz \in {-1, 1}, m \in {10, 2000} }

\* the transforms without rotation (the function reads scale and translation only)
PlaneTransforms == {t \in Transforms : t.rotation = "identity"}

PlaneInit ==
    /\ Idle
    /\ call \in { [fn |-> "ray_intersects_convex_plane_at", ray |-> r, transform |-> t,
                   vertices |-> v, done |-> FALSE, result |-> None] :
                     r \in PlaneRays, t \in PlaneTransforms, v \in Polygons }

\* the call runs and returns
PlaneCall ==
    /\ call.fn = "ray_intersects_convex_plane_at" /\ ~call.done
    /\ call' = [call EXCEPT
                   !.done = TRUE,
                   !.result = ray_intersects_convex_plane_at(call.ray, call.transform,
                                                             call.vertices)]
    /\ IdleUnchanged

PlaneNext == PlaneCall

PlaneSpec == PlaneInit /\ [][PlaneNext]_vars

-----------------------------------------------------------------------------
(* Torus::intersets_ray_at on its own.  Coordinates, radii, distances and the  *)
(* roots t are in halves, as above: the default torus (ring radius 1.0,        *)
(* thickness 0.5) has a = 2 and b = 1.  The quartic is homogeneous in the      *)
(* lengths, so its roots scale with them, and every coefficient is an integer   *)
(* well below 2^24: the f32 arithmetic of the coefficients is exact.            *)

\* the candidate roots are the halves -MaxT .. MaxT
MaxT == 30

\* a4 t^4 + a3 t^3 + a2 t^2 + a1 t + a0
Quartic(c, t) == (((c[1] * t + c[2]) * t + c[3]) * t + c[4]) * t + c[5]

\* its derivative
QuarticSlope(c, t) == ((4 * c[1] * t + 3 * c[2]) * t + 2 * c[3]) * t + c[4]

\* the members of a set of numbers in increasing order
RECURSIVE Ascending(_)
Ascending(ts) ==
    IF ts = {} THEN << >>
    ELSE << CHOOSE v \in ts : \A w \in ts : v <= w >>
         \o Ascending(ts \ {CHOOSE v \in ts : \A w \in ts : v <= w})

\* roots::find_roots_quartic: the real roots in increasing order.  It is called
\* only on quartics whose real roots are simple and lie on the grid of halves (see
\* ExactlySolved), where they are found by substitution.
find_roots_quartic(a4, a3, a2, a1, a0) ==
    Ascending({t \in (-MaxT)..MaxT : Quartic(<<a4, a3, a2, a1, a0>>, t) = 0})

\* solve_quartic: the f64 roots cast to f32 (halves are exact in both), wrapped
\* by their number
solve_quartic(a4, a3, a2, a1, a0) == find_roots_quartic(a4, a3, a2, a1, a0)

\* seeded fault: the sign of the roots is not looked at
SmallestRoot(roots) ==
    IF roots = << >> THEN None
    ELSE Some(CHOOSE v \in {roots[k] : k \in 1..Len(roots)} :
                  \A k \in 1..Len(roots) : v <= roots[k])

\* roots.into_iter().filter(|t| t.is_sign_positive()).reduce(f32::min)
\* (a root 0 is +0.0 here: it comes from an exact cancellation)
closest_t(roots) ==
    MinOrNone({roots[k] : k \in {j \in 1..Len(roots) : roots[j] >= 0}})

\* the coefficients a4, a3, a2, a1, a0 of Torus::intersets_ray_at
TorusQuartic(torus, r) ==
    LET d == mul_vec3(torus.orientation, Sub(r.origin, torus.position))
        e == mul_vec3(torus.orientation, r.direction)
        a == torus.ring_radius
        b == torus.ring_thickness
        a_squared == a * a
        b_squared == b * b
        g == 4 * a_squared * (e[1] * e[1] + e[3] * e[3])
        h == 8 * a_squared * (d[1] * e[1] + d[3] * e[3])
        i == 4 * a_squared * (d[1] * d[1] + d[3] * d[3])
        j == Dot(e, e)
        k == 2 * Dot(d, e)
        l == Dot(d, d) + (a_squared - b_squared)
    IN  << j * j, 2 * j * k, (2 * j * l) + (k * k) - g, (2 * k * l) - h, (l * l) - i >>

\* match closest_t { Some(t) => if t > ray.max { None } else { Some(t) }, None => None }
WithinMax(t, r) == IF IsSome(t) /\ Unwrap(t) > r.max THEN None ELSE t

\* Torus::intersets_ray_at
Torus_intersets_ray_at(torus, r) ==
    WithinMax(closest_t(solve_quartic(TorusQuartic(torus, r)[1], TorusQuartic(torus, r)[2],
                                      TorusQuartic(torus, r)[3], TorusQuartic(torus, r)[4],
                                      TorusQuartic(torus, r)[5])), r)

\* Torus::default() and the torus of test_non_default_position_torus_ray_intersection,
\* each also turned half around z and a third around (1, 1, 1)
Toruses ==
    { [ring_radius |-> 2, ring_thickness |-> 1, position |-> p, orientation |-> q] :
        p \in {<<0, 0, 0>>, <<0, 0, -20>>},
        q \in {"identity", "half_turn_z", "third_turn_xyz"} }

AxisDirections ==
    { <<1, 0, 0>>, <<-1, 0, 0>>, <<0, 1, 0>>, <<0, -1, 0>>, <<0, 0, 1>>, <<0, 0, -1>> }

\* rays from whole coordinates around the origin along an axis, of range 1000.0,
\* 8.0 and 8.5
TorusRays ==
    { [origin |-> <<x, y, z>>, direction |-> e, max |-> m] :
        x \in {-4, -2, 0, 2, 4}, y \in {-2, 0, 2}, z \in {-4, 0, 4},
        e \in AxisDirections, m \in {2000, 16, 17} }

\* the quartic changes sign only through a candidate root, and at each candidate
\* root its slope is not zero: all its real roots are simple and on the grid
ExactlySolved(c) ==
    /\ \A t \in (-MaxT)..(MaxT - 1) :
           ~(Quartic(c, t) > 0 /\ Quartic(c, t + 1) < 0)
           /\ ~(Quartic(c, t) < 0 /\ Quartic(c, t + 1) > 0)
    /\ \A t \in (-MaxT)..MaxT : Quartic(c, t) = 0 => QuarticSlope(c, t) # 0
    /\ Quartic(c, -MaxT) > 0 /\ Quartic(c, MaxT) > 0

TorusCalls ==
    { [fn |-> "Torus::intersets_ray_at", torus |-> t, ray |-> r,
       done |-> FALSE, result |-> None] : t \in Toruses, r \in TorusRays }

TorusInit ==
    /\ Idle
    /\ call \in {c \in TorusCalls : ExactlySolved(TorusQuartic(c.torus, c.ray))}

\* the call runs and returns
TorusCall ==
    /\ call.fn = "Torus::intersets_ray_at" /\ ~call.done
    /\ call' = [call EXCEPT !.done = TRUE,
                            !.result = Torus_intersets_ray_at(call.torus, call.ray)]
    /\ IdleUnchanged

TorusNext == TorusCall

TorusSpec == TorusInit /\ [][TorusNext]_vars

-----------------------------------------------------------------------------
(* EditableMesh::from(&Mesh).  call holds the Mesh given (topology, position   *)
(* and normal attribute, optional index buffer), the EditableMesh under        *)
(* construction (number of topology vertices, faces as triples of vertex       *)
(* handles, the two vertex tables) and the position in the function: "start",  *)
(* "chunks" (the loop of the path without indices), "faces" (the loop over     *)
(* the index buffer), "returned" or "panicked".                                *)

\* the longest position and normal arrays
MaxVertices == 6

\* the longest index buffer
MaxIndices == 7

\* the handles created by one turn of the loop without indices
HandlesPerChunk == 3

Topologies == {"TriangleList", "TriangleStrip", "LineList"}

\* the attribute is absent, or present with a format and a number of values
Attributes ==
    {[format |-> "missing", len |-> 0]}
    \cup {[format |-> f, len |-> n] : f \in {"Float32x3", "Float32x2"}, n \in 0..MaxVertices}

\* the index pattern of a mesh of quads, two triangles each (as Cuboid::mesh() has)
QuadIndices == <<0, 1, 2, 2, 3, 0, 4, 5, 6, 6, 7, 4>>

\* mesh.indices(): None, or U16/U32 indices
IndexBuffers ==
    {None} \cup {Some([width |-> w, values |-> SubSeq(QuadIndices, 1, n)]) :
                     w \in {"U16", "U32"}, n \in 0..MaxIndices}

InputMeshes ==
    { [topology |-> t, position |-> a, normal |-> b, indices |-> ix] :
        t \in Topologies, a \in Attributes, b \in Attributes, ix \in IndexBuffers }

\* the k-th value of the position attribute (values repeat: two input vertices can
\* be at the same place) and of the normal attribute
PositionValue(k) == k % 2

NormalValue(k) == 10 + k

\* seeded fault: the normal attribute is not looked at
UnsupportedButNormal(m) ==
    \/ m.topology # "TriangleList"
    \/ m.position.format # "Float32x3"

\* the checks before anything is built: topology (unimplemented!), position
\* attribute (expect, unimplemented!), normal attribute (expect, unimplemented!)
Unsupported(m) ==
    \/ m.topology # "TriangleList"
    \/ m.position.format # "Float32x3"
    \/ m.normal.format # "Float32x3"

\* slice.chunks(3): the number of chunks
ChunkCount(len) == (len + 2) \div 3

\* slice.chunks(3): the number of values of chunk i (from 0)
ChunkLen(len, i) == MinI(3, len - 3 * i)

\* seeded fault: the face is not added
add_no_face(faces, handles) == faces

\* structure.add_face(&handles)
add_face(faces, handles) == Append(faces, handles)

\* a table with the entries handle first + j - 1 |-> values[from + j], j = 1..count,
\* added
Inserted(table, first, count, from, values) ==
    [h \in DOMAIN table \cup {first + j - 1 : j \in 1..count} |->
        IF h >= first /\ h < first + count THEN values[from + h - first + 1]
        ELSE table[h]]

\* the values of the position attribute and of the normal attribute
position_attribute(m) == [k \in 1..m.position.len |-> PositionValue(k)]

normal_attribute(m) == [k \in 1..m.normal.len |-> NormalValue(k)]

EmptyTable == [h \in {} |-> 0]

MeshInit ==
    /\ Idle
    /\ call \in { [fn |-> "EditableMesh::from", mesh |-> m, pc |-> "start", i |-> 0,
                   num_vertices |-> 0, faces |-> << >>,
                   vertex_positions |-> EmptyTable, vertex_normals |-> EmptyTable] :
                     m \in InputMeshes }

AtMesh(where) == call.fn = "EditableMesh::from" /\ call.pc = where

\* one of the three checks fails: unimplemented!() or expect() panics
Rejects ==
    /\ AtMesh("start")
    /\ Unsupported(call.mesh)
    /\ call' = [call EXCEPT !.pc = "panicked"]
    /\ IdleUnchanged

\* the checks pass and there is no index buffer: the loop over the chunks begins
StartsChunks ==
    /\ AtMesh("start")
    /\ ~Unsupported(call.mesh)
    /\ call.mesh.indices = None
    /\ call' = [call EXCEPT !.pc = "chunks"]
    /\ IdleUnchanged

\* one turn of the loop over position chunks zipped with normal chunks: three
\* vertices are added, the zipped (position, normal) pairs are entered for the
\* first of them, the face is added
Chunk ==
    /\ AtMesh("chunks")
    /\ call.i < MinI(ChunkCount(call.mesh.position.len), ChunkCount(call.mesh.normal.len))
    /\ LET first == call.num_vertices
           pairs == MinI(ChunkLen(call.mesh.position.len, call.i),
                         ChunkLen(call.mesh.normal.len, call.i))
       IN  call' = [call EXCEPT
                      !.i = call.i + 1,
                      !.num_vertices = first + HandlesPerChunk,
                      !.vertex_positions =
                          Inserted(call.vertex_positions, first, pairs, 3 * call.i,
                                   position_attribute(call.mesh)),
                      !.vertex_normals =
                          Inserted(call.vertex_normals, first, pairs, 3 * call.i,
                                   normal_attribute(call.mesh)),
                      !.faces = add_face(call.faces, << first, first + 1, first + 2 >>)]
    /\ IdleUnchanged

\* the chunks are used up: return editable_mesh
ChunksReturn ==
    /\ AtMesh("chunks")
    /\ call.i >= MinI(ChunkCount(call.mesh.position.len), ChunkCount(call.mesh.normal.len))
    /\ call' = [call EXCEPT !.pc = "returned"]
    /\ IdleUnchanged

\* the checks pass and there is an index buffer: one vertex is added, with its
\* position and its normal, for each zipped (position, normal) pair
CollectsVertices ==
    /\ AtMesh("start")
    /\ ~Unsupported(call.mesh)
    /\ call.mesh.indices # None
    /\ LET count == MinI(call.mesh.position.len, call.mesh.normal.len)
       IN  call' = [call EXCEPT
                      !.pc = "faces",
                      !.num_vertices = count,
                      !.vertex_positions = Inserted(EmptyTable, 0, count, 0,
                                                 position_attribute(call.mesh)),
                      !.vertex_normals = Inserted(EmptyTable, 0, count, 0,
                                               normal_attribute(call.mesh))]
    /\ IdleUnchanged

\* the index values of the chunk the loop over indices.chunks(3) is at
IndexChunk ==
    SubSeq(Unwrap(call.mesh.indices).values, 3 * call.i + 1,
           3 * call.i + ChunkLen(Len(Unwrap(call.mesh.indices).values), call.i))

\* chunk[0], chunk[1], chunk[2] and vertices[..] are all in bounds
ChunkInBounds ==
    /\ Len(IndexChunk) = 3
    /\ \A k \in 1..3 : IndexChunk[k] < call.num_vertices

\* one turn of the loop over the index chunks: the face is added
IndexedFace ==
    /\ AtMesh("faces")
    /\ call.i < ChunkCount(Len(Unwrap(call.mesh.indices).values))
    /\ ChunkInBounds
    /\ call' = [call EXCEPT
                   !.i = call.i + 1,
                   !.faces = add_face(call.faces,
                                      << IndexChunk[1], IndexChunk[2], IndexChunk[3] >>)]
    /\ IdleUnchanged

\* one turn of the loop over the index chunks: the chunk is short or an index has
\* no vertex, and the indexing panics
IndexPanics ==
    /\ AtMesh("faces")
    /\ call.i < ChunkCount(Len(Unwrap(call.mesh.indices).values))
    /\ ~ChunkInBounds
    /\ call' = [call EXCEPT !.pc = "panicked"]
    /\ IdleUnchanged

\* the index chunks are used up: return editable_mesh
FacesReturn ==
    /\ AtMesh("faces")
    /\ call.i >= ChunkCount(Len(Unwrap(call.mesh.indices).values))
    /\ call' = [call EXCEPT !.pc = "returned"]
    /\ IdleUnchanged

MeshNext ==
    \/ Rejects
    \/ StartsChunks \/ Chunk \/ ChunksReturn
    \/ CollectsVertices \/ IndexedFace \/ IndexPanics \/ FacesReturn

MeshSpec == MeshInit /\ [][MeshNext]_vars

-----------------------------------------------------------------------------
(* utils::multiples.  An f32 is a sign and a magnitude, so that -0.0 and 0.0   *)
(* are two values; the magnitudes are whole numbers of one unit (a half, a     *)
(* quarter, ...), small enough for every sum and difference to be exact.       *)

\* the largest magnitude of a value
MaxValue == 12

\* the largest multiple
MaxMultiple == 4

F32(negative, magnitude) == [negative |-> negative, magnitude |-> magnitude]

\* the number an f32 stands for (-0.0 and 0.0 both stand for 0)
Num(x) == IF x.negative THEN 0 - x.magnitude ELSE x.magnitude

\* the f32 of a number that is not zero, and 0.0
OfNum(n) == IF n < 0 THEN F32(TRUE, 0 - n) ELSE F32(FALSE, n)

\* value % multiple on f32: the magnitude is that of the truncated division, the
\* sign is the sign of value, also when the magnitude is zero
f32_rem(value, multiple) == F32(value.negative, value.magnitude % multiple.magnitude)

is_sign_negative(x) == x.negative

\* x == 0.0 (true of -0.0 as well)
IsZero(x) == x.magnitude = 0

smallest_multiple_greater_than_or_equal_to(value, multiple) ==
    IF IsZero(f32_rem(value, multiple)) THEN value
    ELSE IF is_sign_negative(f32_rem(value, multiple))
         THEN OfNum(Num(value) - Num(f32_rem(value, multiple)))
         ELSE OfNum(Num(value) + Num(multiple) - Num(f32_rem(value, multiple)))

largest_multiple_less_than_or_equal_to(value, multiple) ==
    IF is_sign_negative(f32_rem(value, multiple))
    THEN OfNum(Num(value) - Num(multiple) - Num(f32_rem(value, multiple)))
    ELSE OfNum(Num(value) - Num(f32_rem(value, multiple)))

Values == {F32(n, k) : n \in BOOLEAN, k \in 0..MaxValue}

Multiples == {F32(FALSE, k) : k \in 1..MaxMultiple}

MultiplesInit ==
    /\ Idle
    /\ call \in { [fn |-> f, value |-> v, multiple |-> m, done |-> FALSE, result |-> v] :
                     f \in {"smallest_multiple_greater_than_or_equal_to",
                            "largest_multiple_less_than_or_equal_to"},
                     v \in Values, m \in Multiples }

SmallestCall ==
    /\ call.fn = "smallest_multiple_greater_than_or_equal_to"
    /\ ~call.done
    /\ call' = [call EXCEPT
                   !.done = TRUE,
                   !.result = smallest_multiple_greater_than_or_equal_to(call.value,
                                                                         call.multiple)]
    /\ IdleUnchanged

LargestCall ==
    /\ call.fn = "largest_multiple_less_than_or_equal_to"
    /\ ~call.done
    /\ call' = [call EXCEPT
                   !.done = TRUE,
                   !.result = largest_multiple_less_than_or_equal_to(call.value,
                                                                     call.multiple)]
    /\ IdleUnchanged

MultiplesNext == SmallestCall \/ LargestCall

MultiplesSpec == MultiplesInit /\ [][MultiplesNext]_vars

-----------------------------------------------------------------------------
(* The editor: the Focused marker, the InteractionMode resource, the tool      *)
(* registry and the ActiveTool resource, driven by clicks and by the calls of  *)
(* the binding.  The world is held in call; the hierarchy variables are idle.  *)
(* A click is described by what the two intersection tests of the frame answer *)
(* for it: the entity of the closest precise hit and the entity of the closest *)
(* fast hit.                                                                    *)

MaxEntity == 2

\* the mesh entities of the scene; populate_scene spawns entity 0 with Focused
Entities == 0..MaxEntity

\* the indices a caller of the binding may pass; the last one is no entity
EntityIndices == 0..(MaxEntity + 1)

InteractionMode == {"Object", "Edit", "Sculpt"}

ToolType == {"Move", "Rotate", "Scale", "Cursor"}

\* Tools.map after register_tools
register_tools ==
    [t \in {"Move", "Scale", "Rotate"} |->
        IF t = "Move"
        THEN [startup_system |-> None,
              update_system |-> Some("translation_tool_update"),
              cleanup_system |-> Some("translation_tool_cleanup")]
        ELSE IF t = "Scale"
        THEN [startup_system |-> None,
              update_system |-> Some("scale_tool_update"),
              cleanup_system |-> Some("scale_tool_cleanup")]
        ELSE [startup_system |-> None,
              update_system |-> Some("rotation_tool_update"),
              cleanup_system |-> None]]

\* Query::get_single over the entities of a query: Ok only for exactly one
get_single(query) ==
    IF Cardinality(query) = 1 THEN Some(CHOOSE e \in query : TRUE) ELSE None

\* world.run_system(id) for an optional system id: the system runs now, and
\* the entry keeps what the ActiveTool resource holds while it runs
run_system(system, active_tool) ==
    IF IsSome(system)
    THEN << [system |-> Unwrap(system), active_tool |-> active_tool] >>
    ELSE << >>

\* set_active_tool with the cleanup run before the new tool is made active
set_active_tool_cleanup_first(world, tool_type) ==
    IF tool_type \notin DOMAIN world.tools
    THEN [world EXCEPT !.ran = << >>]
    ELSE [world EXCEPT
             !.active_tool = Some(world.tools[tool_type]),
             !.ran = run_system(IF IsSome(world.active_tool)
                                THEN Unwrap(world.active_tool).cleanup_system
                                ELSE None,
                                world.active_tool)
                     \o run_system(world.tools[tool_type].startup_system,
                                   Some(world.tools[tool_type]))]

set_active_tool(world, tool_type) ==
    IF tool_type \notin DOMAIN world.tools
    THEN [world EXCEPT !.ran = << >>]
    ELSE [world EXCEPT
             !.active_tool = Some(world.tools[tool_type]),
             !.ran = run_system(IF IsSome(world.active_tool)
                                THEN Unwrap(world.active_tool).cleanup_system
                                ELSE None,
                                Some(world.tools[tool_type]))
                     \o run_system(world.tools[tool_type].startup_system,
                                   Some(world.tools[tool_type]))]

unset_active_tool(world) ==
    [world EXCEPT
        !.active_tool = None,
        !.ran = run_system(IF IsSome(world.active_tool)
                           THEN Unwrap(world.active_tool).cleanup_system
                           ELSE None,
                           None)]

\* focus_entity: the single focused entity, if there is one, loses the marker
\* before the index is looked up
focus_entity(world, entity_index) ==
    [world EXCEPT
        !.focused = (IF IsSome(get_single(world.focused))
                     THEN {}
                     ELSE world.focused)
                    \union (IF entity_index \in Entities THEN {entity_index} ELSE {}),
        !.ran = << >>]

unfocus(world) ==
    [world EXCEPT
        !.focused = IF IsSome(get_single(world.focused)) THEN {} ELSE world.focused,
        !.ran = << >>]

set_interaction_mode(world, new_mode) ==
    IF new_mode # "Object" /\ ~IsSome(get_single(world.focused))
    THEN [world EXCEPT !.ran = << >>]
    ELSE [world EXCEPT !.interaction_mode = new_mode, !.ran = << >>]

\* the deferred commands of handle_interaction for a click whose closest hit is
\* closest_entity, computed from the Focused markers the system sees
handle_interaction(focused, closest_entity) ==
    (IF IsSome(closest_entity)
     THEN << [command |-> "insert", entity |-> Unwrap(closest_entity)] >>
     ELSE << >>)
    \o (IF /\ IsSome(get_single(focused))
           /\ IsSome(closest_entity)
           /\ get_single(focused) # closest_entity
        THEN << [command |-> "remove", entity |-> Unwrap(get_single(focused))] >>
        ELSE << >>)

\* the expect() of multi_object_mode_interaction outside Object mode
ExpectPanics(focused, interaction_mode) ==
    interaction_mode # "Object" /\ ~IsSome(get_single(focused))

\* the deferred commands of multi_object_mode_interaction that touch Focused;
\* outside Object mode it only inserts an InteractionCache
multi_object_mode_interaction(focused, interaction_mode, closest_entity) ==
    IF interaction_mode = "Object" THEN handle_interaction(focused, closest_entity) ELSE << >>

\* the command queue applied to the Focused markers
RECURSIVE apply_deferred(_, _)
apply_deferred(focused, commands) ==
    IF commands = << >> THEN focused
    ELSE apply_deferred(IF Head(commands).command = "insert"
                        THEN focused \union {Head(commands).entity}
                        ELSE focused \ {Head(commands).entity},
                        Tail(commands))

\* The two systems are not ordered against each other in Update: either the
\* commands of multi_object_mode_interaction are applied at the sync point that
\* precedes handle_interaction, or both systems see the same markers and their
\* queues are applied one after the other at the end of the schedule.
Schedules == {"multi_sync_handle", "multi_handle", "handle_multi"}

\* the Focused markers after a frame with a left click
update(focused, interaction_mode, fast, precise, schedule) ==
    IF schedule = "multi_sync_handle"
    THEN apply_deferred(
             apply_deferred(focused,
                            multi_object_mode_interaction(focused, interaction_mode, fast)),
             handle_interaction(
                 apply_deferred(focused,
                                multi_object_mode_interaction(focused, interaction_mode, fast)),
                 precise))
    ELSE IF schedule = "multi_handle"
    THEN apply_deferred(focused,
                        multi_object_mode_interaction(focused, interaction_mode, fast)
                        \o handle_interaction(focused, precise))
    ELSE apply_deferred(focused,
                        handle_interaction(focused, precise)
                        \o multi_object_mode_interaction(focused, interaction_mode, fast))

NoOp == [name |-> "none"]

EditorInit ==
    /\ Idle
    /\ call = [fn |-> "editor",
               focused |-> {0},
               interaction_mode |-> "Object",
               tools |-> register_tools,
               active_tool |-> None,
               ran |-> << >>,
               panicked |-> FALSE,
               op |-> NoOp]

Running == call.fn = "editor" /\ ~call.panicked

\* a frame in which the left button was just pressed over the viewport; a
\* precise hit of an entity lies inside a leaf box of it, so the fast test
\* answers something too
Click ==
    /\ Running
    /\ ~ExpectPanics(call.focused, call.interaction_mode)
    /\ \E precise \in {None} \union {Some(e) : e \in Entities},
          fast \in {None} \union {Some(e) : e \in Entities},
          schedule \in Schedules :
          /\ IsSome(precise) => IsSome(fast)
          /\ call' = [call EXCEPT
                         !.focused = update(call.focused, call.interaction_mode,
                                            fast, precise, schedule),
                         !.ran = << >>,
                         !.op = [name |-> "click", fast |-> fast,
                                 precise |-> precise, schedule |-> schedule,
                                 focused |-> call.focused]]
    /\ IdleUnchanged

ClickPanics ==
    /\ Running
    /\ ExpectPanics(call.focused, call.interaction_mode)
    /\ call' = [call EXCEPT !.panicked = TRUE, !.ran = << >>,
                            !.op = [name |-> "click_panicked",
                                    focused |-> call.focused]]
    /\ IdleUnchanged

FocusEntity ==
    /\ Running
    /\ \E entity_index \in EntityIndices :
          call' = [focus_entity(call, entity_index) EXCEPT
                      !.op = [name |-> "focus_entity", entity_index |-> entity_index,
                              focused |-> call.focused]]
    /\ IdleUnchanged

Unfocus ==
    /\ Running
    /\ call' = [unfocus(call) EXCEPT
                   !.op = [name |-> "unfocus", focused |-> call.focused]]
    /\ IdleUnchanged

SetInteractionMode ==
    /\ Running
    /\ \E m \in InteractionMode :
          call' = [set_interaction_mode(call, m) EXCEPT
                      !.op = [name |-> "set_interaction_mode", new_mode |-> m,
                              before |-> call.interaction_mode,
                              focused |-> call.focused]]
    /\ IdleUnchanged

SetActiveTool ==
    /\ Running
    /\ \E tool_type \in ToolType :
          call' = [set_active_tool(call, tool_type) EXCEPT
                      !.op = [name |-> "set_active_tool", tool_type |-> tool_type,
                              before |-> call.active_tool]]
    /\ IdleUnchanged

UnsetActiveTool ==
    /\ Running
    /\ call' = [unset_active_tool(call) EXCEPT
                   !.op = [name |-> "unset_active_tool",
                           before |-> call.active_tool]]
    /\ IdleUnchanged

EditorNext ==
    \/ Click
    \/ ClickPanics
    \/ FocusEntity
    \/ Unfocus
    \/ SetInteractionMode
    \/ SetActiveTool
    \/ UnsetActiveTool

EditorSpec == EditorInit /\ [][EditorNext]_vars

-----------------------------------------------------------------------------
(* Properties *)

\* node indices (1-based positions in the node array) of the leaves
Leaves(ns) == {k \in 1..Len(ns) : ns[k].kind = "Leaf"}

\* every (leaf, position in its primitive_list) pair
LeafSlots(ns) ==
    UNION {{<<k, j>> : j \in 1..Len(ns[k].primitive_list)} : k \in Leaves(ns)}

\* the face handles stored in the leaves at or below node k (0-based index)
RECURSIVE FacesUnder(_, _)
FacesUnder(ns, k) ==
    IF ns[k + 1].kind = "Leaf"
    THEN {ns[k + 1].primitive_list[j] : j \in 1..Len(ns[k + 1].primitive_list)}
    ELSE FacesUnder(ns, ns[k + 1].left) \cup FacesUnder(ns, ns[k + 1].right)

\* box a lies componentwise inside box b
Inside(a, b) == \A c \in 1..3 : b.min[c] <= a.min[c] /\ a.max[c] <= b.max[c]

\* from() has returned a hierarchy (a query may be running on it or be over)
Built == pc \notin {"from", "from_panicked", "build", "build_panicked"}

\* the node indices the work loop has taken from the queue
Taken == {k \in 0..(Len(nodes) - 1) : \A j \in 1..Len(queue) : queue[j] # k}

\* the scan of every face of the mesh with ray_intersects_convex_plane_at, in
\* handle order, keeping the nearest hit
BruteForce(m, r, t) == ScanPrimitives(m, face_handles(m), r, t, None)

\* the entry distances of the leaves whose transformed box the ray hits
LeafEntries(ns, r, t) ==
    {Unwrap(intersects_ray(ns[k], r, t)) :
        k \in {j \in Leaves(ns) : IsSome(intersects_ray(ns[j], r, t))}}

\* the t of the root's box for the running query
RootT == intersects_ray(nodes[1], transformed_ray(ray, transform), transform)

\* C1: partition completeness.  In every state of the build (from the seeding of
\* the root leaf on) and after it, every face handle of the mesh is stored in
\* exactly one slot of exactly one leaf, and the leaves store nothing else.
PartitionComplete ==
    pc # "from" =>
        /\ \A h \in 0..(Len(mesh) - 1) :
               Cardinality({s \in LeafSlots(nodes) :
                               nodes[s[1]].primitive_list[s[2]] = h}) = 1
        /\ \A s \in LeafSlots(nodes) :
               nodes[s[1]].primitive_list[s[2]] \in 0..(Len(mesh) - 1)

\* C1 witness: a finished build that split at least twice
PartitionAfterSplits == pc = "built" /\ Cardinality(Leaves(nodes)) >= 3

\* C2: bounding containment.  In a built hierarchy the box of every face stored at
\* or below a node lies inside that node's box.
BoundingContainment ==
    Built => \A k \in 0..(Len(nodes) - 1) : \A h \in FacesUnder(nodes, k) :
                 Inside(face_aabb_cache(mesh, h), nodes[k + 1].aabb)

\* C2 witness: a built hierarchy with a leaf two levels below the root
ContainmentTwoLevels ==
    /\ pc = "built"
    /\ \E k \in 2..Len(nodes) : nodes[k].kind = "NonLeaf"

\* C3: agreement with the brute-force scan, for the transform an entity is spawned
\* with: when intersects_ray_at has returned, its result (None, or face and
\* distance) is the result of the scan of every face.
PreciseAgreesWithBruteForce ==
    (pc = "returned" /\ mode = "precise" /\ transform = NoTransform)
        => closest = BruteForce(mesh, transformed_ray(ray, transform), transform)

\* C4: fast mode returns the least entry distance over the leaves whose transformed
\* box the ray hits, and None exactly when it hits no leaf's box.
FastIsLeastLeafEntry ==
    (pc = "returned" /\ mode = "fast")
        => closest = MinOrNone(LeafEntries(nodes, transformed_ray(ray, transform),
                                           transform))

\* C5: miss correctness.  When the ray does not hit the root's box, the traversal
\* (fast or precise) returns None and has examined the root only.
MissCorrect ==
    (pc = "returned" /\ ~IsSome(RootT)) => (closest = None /\ examined = << 0 >>)

\* C5 witness: a precise query on a hierarchy with children has returned after
\* missing the root's box
MissOnSplitTree ==
    pc = "returned" /\ mode = "precise" /\ ~IsSome(RootT) /\ Len(nodes) >= 3

\* C7: split threshold of 16.  A node taken from the queue had a split attempted
\* on it exactly when it held more than 16 faces.
SplitThreshold16 ==
    \A k \in Taken : (k \in attempted) <=> (Cardinality(FacesUnder(nodes, k)) > 16)

\* C8: leaf size bound.  In a built hierarchy a leaf holds at most 16 faces unless
\* split_node returned None on it (the warning was logged for it).
LeafSizeBound ==
    Built => \A k \in Leaves(nodes) :
                 Len(nodes[k].primitive_list) <= 16 \/ (k - 1) \in warned

\* C8 witness: a built hierarchy with a leaf of more than 16 faces
OversizedLeafBuilt ==
    pc = "built" /\ \E k \in Leaves(nodes) : Len(nodes[k].primitive_list) > 16

\* C9: node count bound.  A built hierarchy with L leaves over F faces has
\* 2L - 1 nodes and L <= F, hence at most 2F - 1 nodes.
NodeCountBound ==
    Built => /\ Len(nodes) = 2 * Cardinality(Leaves(nodes)) - 1
             /\ Cardinality(Leaves(nodes)) <= Len(mesh)
             /\ Len(nodes) <= 2 * Len(mesh) - 1

\* C9 witness: a built hierarchy of five nodes or more
NodeCountAfterSplits == pc = "built" /\ Len(nodes) >= 5

\* C10: the build never panics: no assert_eq! of split_node fails.
BuildNeverPanics == pc # "build_panicked"

\* C11: an empty mesh is a construction error.  from() on a mesh without a face
\* never gets past its prologue: it has panicked or not started, no node was ever
\* pushed, and no query runs on it.
EmptyMeshNeverBuilt ==
    mesh = << >> => (pc \in {"from", "from_panicked"} /\ nodes = << >>)

\* C11 witness: from() has panicked on the mesh without a face
EmptyMeshPanicked == mesh = << >> /\ pc = "from_panicked"

\* the faces held by node k (0-based index) when it is a leaf
LeafLen(ns, k) == Len(ns[k + 1].primitive_list)

FanHit(r, t, vertices, i) ==
    Triangle3d_intersects_ray_at(<< TransformPoint(vertices[1], t),
                                    TransformPoint(vertices[i], t),
                                    TransformPoint(vertices[i + 1], t) >>, r)

\* the fan triangles hit at a distance of at most ray.max
HitsWithin(r, t, vertices) ==
    {i \in 2..(Len(vertices) - 1) :
        IsSome(FanHit(r, t, vertices, i)) /\ Unwrap(FanHit(r, t, vertices, i)) <= r.max}

\* Some(t) of the first of these in fan order, None when there is none
FirstHitWithin(r, t, vertices) ==
    IF HitsWithin(r, t, vertices) = {} THEN None
    ELSE FanHit(r, t, vertices,
                CHOOSE i \in HitsWithin(r, t, vertices) :
                    \A j \in HitsWithin(r, t, vertices) : i <= j)

PlaneReturned == call.fn = "ray_intersects_convex_plane_at" /\ call.done

\* C13: hit range of the polygon test.  The call returns Some(t) of the first fan
\* triangle hit at a distance t > 1e-5 and t <= ray.max (t = ray.max included), and
\* None when no fan triangle is hit in that range.
PlaneHitRangeInclusive ==
    PlaneReturned =>
        call.result = FirstHitWithin(call.ray, call.transform, call.vertices)

\* the call is on a quad as it lies (identity transform), with a ray along -z of
\* range 1000.0 from above the plane
QuadFromAbove ==
    /\ PlaneReturned
    /\ Len(call.vertices) = 4 /\ call.transform = NoTransform
    /\ call.ray.direction = <<0, 0, -1>> /\ call.ray.max = 2000
    /\ call.ray.origin[3] > 0

\* (x, y) of the ray origin lies strictly inside the axis-aligned quad
StrictlyInside(origin, vertices) ==
    \A c \in 1..2 : /\ (\E k \in 1..Len(vertices) : vertices[k][c] < origin[c])
                     /\ (\E j \in 1..Len(vertices) : vertices[j][c] > origin[c])

\* (x, y) of the ray origin lies strictly outside the axis-aligned quad
StrictlyOutside(origin, vertices) ==
    \E c \in 1..2 : \/ (\A k \in 1..Len(vertices) : vertices[k][c] > origin[c])
                     \/ (\A j \in 1..Len(vertices) : vertices[j][c] < origin[c])

\* C14 as stated: for an axis-aligned quad in the plane z = 0, the identity
\* transform and a ray along -z of range 1000 from any height h > 0, the result is
\* Some(h) when the origin is strictly inside the quad and None when it is strictly
\* outside.
QuadHitFromAnyHeight ==
    QuadFromAbove =>
        /\ StrictlyInside(call.ray.origin, call.vertices)
               => call.result = Some(call.ray.origin[3])
        /\ StrictlyOutside(call.ray.origin, call.vertices) => call.result = None

\* C14, the part that holds: scenario A as stated (the unit quad, origin
\* (0.5, 0.5, 1) gives Some(1.0), origin (0.5, -0.5, 1) gives None), and in general
\* Some(h) when the origin is strictly inside and the height h is below the range of
\* the ray, None when the origin is strictly outside or h is beyond the range.
QuadHitWithinRange ==
    QuadFromAbove =>
        /\ (call.vertices = UnitQuad /\ call.ray.origin = <<1, 1, 2>>)
               => call.result = Some(2)
        /\ (call.vertices = UnitQuad /\ call.ray.origin = <<1, -1, 2>>)
               => call.result = None
        /\ (StrictlyInside(call.ray.origin, call.vertices)
               /\ call.ray.origin[3] < call.ray.max)
               => call.result = Some(call.ray.origin[3])
        /\ StrictlyOutside(call.ray.origin, call.vertices) => call.result = None
        /\ call.ray.origin[3] > call.ray.max => call.result = None

\* C14 witness: the first call of scenario A has returned its hit at 1.0
ScenarioAHit ==
    /\ QuadFromAbove
    /\ call.vertices = UnitQuad /\ call.ray.origin = <<1, 1, 2>>
    /\ call.result = Some(2)

\* the point at distance t along the ray, in the frame of the torus
TorusLocal(torus, r, t) ==
    mul_vec3(torus.orientation,
             Sub(<< r.origin[1] + t * r.direction[1], r.origin[2] + t * r.direction[2],
                    r.origin[3] + t * r.direction[3] >>, torus.position))

\* the implicit equation of the torus around the y axis:
\* (|p|^2 + a^2 - b^2)^2 = 4 a^2 (p.x^2 + p.z^2)
OnTorus(torus, p) ==
    (Dot(p, p) + torus.ring_radius * torus.ring_radius
               - torus.ring_thickness * torus.ring_thickness)
    * (Dot(p, p) + torus.ring_radius * torus.ring_radius
                 - torus.ring_thickness * torus.ring_thickness)
    = 4 * torus.ring_radius * torus.ring_radius * (p[1] * p[1] + p[3] * p[3])

\* the distances t >= 0 at which the ray is on the torus
TorusHits(torus, r) == {t \in 0..MaxT : OnTorus(torus, TorusLocal(torus, r, t))}

TorusReturned == call.fn = "Torus::intersets_ray_at" /\ call.done

\* C15: torus hit distance.  The call returns the least distance t >= 0 at which
\* the ray meets the torus (the smallest non-negative real root of the quartic)
\* when it is at most ray.max, and None when there is none or it exceeds ray.max;
\* for the default torus and the ray from the origin along -z of range 1000 it
\* returns 0.5 with the torus at the origin and 8.5 with the torus at (0, 0, -10).
TorusHitDistance ==
    TorusReturned =>
        /\ call.result = WithinMax(MinOrNone(TorusHits(call.torus, call.ray)), call.ray)
        /\ (/\ call.ray = [origin |-> <<0, 0, 0>>, direction |-> <<0, 0, -1>>,
                           max |-> 2000]
            /\ call.torus.orientation = "identity")
               => call.result = IF call.torus.position = <<0, 0, 0>>
                                THEN Some(1) ELSE Some(17)

\* C15 witness: the call on the torus at (0, 0, -10) has returned 8.5
TorusFarHit ==
    /\ TorusReturned
    /\ call.torus.position = <<0, 0, -20>> /\ call.torus.orientation = "identity"
    /\ call.ray = [origin |-> <<0, 0, 0>>, direction |-> <<0, 0, -1>>, max |-> 2000]
    /\ call.result = Some(17)

\* the Mesh given is a list of whole triangles: as many normals as positions, and
\* either a whole number of position triples or a whole number of index triples
\* that each name an input vertex
WellFormed(m) ==
    /\ m.position.len = m.normal.len
    /\ IF m.indices = None THEN m.position.len % 3 = 0
       ELSE /\ Len(Unwrap(m.indices).values) % 3 = 0
            /\ \A k \in 1..Len(Unwrap(m.indices).values) :
                   Unwrap(m.indices).values[k] < m.position.len

\* the number of triangles of the Mesh given
Triangles(m) ==
    IF m.indices = None THEN m.position.len \div 3
    ELSE Len(Unwrap(m.indices).values) \div 3

\* C16: from a triangle-list mesh with positions and normals, EditableMesh::from
\* returns, and what it returns has one topology vertex for each input vertex
\* (also for input vertices at the same place) and one face for each triangle:
\* index count / 3 with an index buffer, vertex count / 3 without
OneVertexPerInputVertex ==
    (/\ call.fn = "EditableMesh::from"
     /\ call.mesh.topology = "TriangleList"
     /\ call.mesh.position.format = "Float32x3"
     /\ call.mesh.normal.format = "Float32x3"
     /\ WellFormed(call.mesh))
    => /\ call.pc # "panicked"
       /\ call.pc = "returned" =>
            /\ call.num_vertices = call.mesh.position.len
            /\ Len(call.faces) = Triangles(call.mesh)
            /\ \A h \in 0..(call.num_vertices - 1) :
                  /\ h \in DOMAIN call.vertex_positions
                  /\ call.vertex_positions[h] = PositionValue(h + 1)

\* C16, witness: a mesh of one quad (four vertices, two of them pairwise at the
\* same place, six indices) has been converted into four vertices and two faces
QuadConverted ==
    /\ AtMesh("returned")
    /\ call.mesh.indices # None
    /\ call.mesh.position.len = 4
    /\ call.num_vertices = 4
    /\ call.faces = << <<0, 1, 2>>, <<2, 3, 0>> >>
    /\ call.vertex_positions[0] = call.vertex_positions[2]

\* C17: after EditableMesh::from returns, every face has at least 3 vertices and
\* every vertex handle has an entry in the position table and in the normal
\* table, whatever the lengths of the position array, the normal array and the
\* index buffer are
ReturnedMeshInvariant ==
    AtMesh("returned") =>
        /\ \A f \in 1..Len(call.faces) : Len(call.faces[f]) >= 3
        /\ \A h \in 0..(call.num_vertices - 1) :
              /\ h \in DOMAIN call.vertex_positions
              /\ h \in DOMAIN call.vertex_normals

\* C18: a Mesh whose topology is not TriangleList, or whose position or normal
\* attribute is missing or not Float32x3, makes EditableMesh::from fail, and
\* nothing has been added to the mesh when it does
UnsupportedRejectedFirst ==
    /\ []((/\ call.fn = "EditableMesh::from"
           /\ \/ call.mesh.topology # "TriangleList"
              \/ call.mesh.position.format # "Float32x3"
              \/ call.mesh.normal.format # "Float32x3")
          => /\ call.pc \in {"start", "panicked"}
             /\ call.num_vertices = 0
             /\ call.faces = << >>
             /\ DOMAIN call.vertex_positions = {}
             /\ DOMAIN call.vertex_normals = {})
    /\ [][(/\ AtMesh("start")
           /\ \/ call.mesh.topology # "TriangleList"
              \/ call.mesh.position.format # "Float32x3"
              \/ call.mesh.normal.format # "Float32x3")
          => call'.pc = "panicked"]_vars

\* C18, witness: a triangle list with three positions and no normal attribute
\* has been rejected
MissingNormalRejected ==
    /\ AtMesh("panicked")
    /\ call.mesh.topology = "TriangleList"
    /\ call.mesh.position = [format |-> "Float32x3", len |-> 3]
    /\ call.mesh.normal.format = "missing"
    /\ call.num_vertices = 0

MultiplesReturned(f) ==
    /\ call.fn = f
    /\ call.done

\* n is a whole multiple of m (m > 0)
IsMultiple(n, m) == \E k \in (0 - MaxValue - MaxMultiple)..(MaxValue + MaxMultiple) : n = k * m

\* C19: for every value (positive, negative or zero, exact multiples included)
\* and every positive multiple, smallest_multiple_greater_than_or_equal_to gives
\* the least multiple >= value and largest_multiple_less_than_or_equal_to gives
\* the greatest multiple <= value
RoundsToMultiples ==
    /\ MultiplesReturned("smallest_multiple_greater_than_or_equal_to") =>
          /\ IsMultiple(Num(call.result), Num(call.multiple))
          /\ Num(call.result) >= Num(call.value)
          /\ Num(call.result) - Num(call.multiple) < Num(call.value)
    /\ MultiplesReturned("largest_multiple_less_than_or_equal_to") =>
          /\ IsMultiple(Num(call.result), Num(call.multiple))
          /\ Num(call.result) <= Num(call.value)
          /\ Num(call.result) + Num(call.multiple) > Num(call.value)

\* C19, the part that holds: smallest_multiple_greater_than_or_equal_to is right
\* everywhere, and largest_multiple_less_than_or_equal_to is right except at the
\* exact multiples whose sign bit is set (-0.0 included), where it is one
\* multiple too low
RoundsButNegativeMultiples ==
    /\ MultiplesReturned("smallest_multiple_greater_than_or_equal_to") =>
          /\ IsMultiple(Num(call.result), Num(call.multiple))
          /\ Num(call.result) >= Num(call.value)
          /\ Num(call.result) - Num(call.multiple) < Num(call.value)
    /\ MultiplesReturned("largest_multiple_less_than_or_equal_to") =>
          IF call.value.negative /\ IsMultiple(Num(call.value), Num(call.multiple))
          THEN Num(call.result) = Num(call.value) - Num(call.multiple)
          ELSE /\ IsMultiple(Num(call.result), Num(call.multiple))
               /\ Num(call.result) <= Num(call.value)
               /\ Num(call.result) + Num(call.multiple) > Num(call.value)

\* C19, the failing case reached: largest_multiple_less_than_or_equal_to(-6, 3)
\* has returned -9
NegativeMultipleRoundedDown ==
    /\ MultiplesReturned("largest_multiple_less_than_or_equal_to")
    /\ call.value = F32(TRUE, 6)
    /\ call.multiple = F32(FALSE, 3)
    /\ Num(call.result) = 0 - 9

\* the indices a node names as its children (none for a leaf)
ChildrenOf(ns, k) ==
    IF ns[k + 1].kind = "NonLeaf" THEN {ns[k + 1].left, ns[k + 1].right} ELSE {}

\* the nodes reached from the set from by following at most n child links
RECURSIVE ReachedFrom(_, _, _)
ReachedFrom(ns, from, n) ==
    IF n = 0 THEN from
    ELSE ReachedFrom(ns,
                     from \cup UNION {ChildrenOf(ns, k) \cap (0..(Len(ns) - 1)) : k \in from},
                     n - 1)

\* the NonLeaf nodes that name k as a child
ParentsOf(ns, k) ==
    {p \in 0..(Len(ns) - 1) : ns[p + 1].kind = "NonLeaf" /\ k \in ChildrenOf(ns, p)}

\* C20: the node array is a tree rooted at node 0.  During the build (between
\* the turns of the work loop) and after it: the array is not empty once the
\* root is seeded and never shrinks; every NonLeaf's left and right are valid
\* indices, differ, are greater than its own index, and right = left + 1; every
\* node but node 0 is the child of exactly one NonLeaf and node 0 of none, so
\* that all nodes hang below node 0; no node is reached from itself.
TreeShape ==
    /\ [](pc \notin {"from", "from_panicked"} => nodes # << >>)
    /\ [](\A k \in 0..(Len(nodes) - 1) :
            /\ nodes[k + 1].kind = "NonLeaf" =>
                  /\ nodes[k + 1].left \in 0..(Len(nodes) - 1)
                  /\ nodes[k + 1].right \in 0..(Len(nodes) - 1)
                  /\ nodes[k + 1].left # nodes[k + 1].right
                  /\ nodes[k + 1].left > k
                  /\ nodes[k + 1].right > k
                  /\ nodes[k + 1].right = nodes[k + 1].left + 1
            /\ Cardinality(ParentsOf(nodes, k)) = (IF k = 0 THEN 0 ELSE 1)
            /\ k \notin ReachedFrom(nodes, ChildrenOf(nodes, k) \cap (0..(Len(nodes) - 1)),
                                     Len(nodes))
            /\ k \in ReachedFrom(nodes, {0}, Len(nodes)))
    /\ [][/\ Len(nodes') >= Len(nodes)
          /\ \A k \in 1..Len(nodes) :
                \/ nodes'[k] = nodes[k]
                \/ nodes[k].kind = "Leaf" /\ nodes'[k].kind = "NonLeaf"]_vars

\* C20, witness: in the middle of a build, after the root and then its right
\* child (node 2) have been split, with nodes still queued
TreeInTheMaking ==
    /\ pc = "build"
    /\ queue # << >>
    /\ Len(nodes) >= 5
    /\ nodes[3].kind = "NonLeaf"

\* the boundaries i of the axis of best whose candidate is the one best records:
\* same position, same counts
SelectedBoundaries(buckets, root_aabb, best) ==
    {i \in 1..(BUCKET_COUNT - 2) :
        /\ SplitPosition(root_aabb, best.best_split_axis, i) = best.best_split_position
        /\ Combined(buckets, 0, i).primitive_count = best.best_split_left_size
        /\ Combined(buckets, i, BUCKET_COUNT).primitive_count = best.best_split_right_size}

\* the faces of plist the partition sends left are those of the bins below i
BinsAreLeft(m, plist, root_aabb, best, i) ==
    \A k \in 1..Len(plist) :
        GoesLeft(m, plist[k], best)
            <=> bucket_index(m, plist[k], best.best_split_axis, root_aabb) < i

\* what C21 asks of a search that selected a boundary
PartitionAgrees(m, plist, root_aabb, best) ==
    best.tag = "candidate" =>
        /\ \E i \in SelectedBoundaries(Buckets(m, plist, best.best_split_axis, root_aabb),
                                       root_aabb, best) :
              BinsAreLeft(m, plist, root_aabb, best, i)
        /\ Len(left_primitive_list(m, plist, best)) = best.best_split_left_size
        /\ Len(right_primitive_list(m, plist, best)) = best.best_split_right_size
        /\ best.best_split_left_size > 0
        /\ best.best_split_right_size > 0

\* C21: bin assignment and centroid partition agree.  Whenever split_node selects
\* a boundary i, the faces whose centroid is below the split position are the
\* faces of the bins [0, i), the two lists have the counts recorded for the
\* boundary and are not empty; and every Leaf of the array holds a face.
BinsAgreeWithPartition ==
    /\ SplitDue =>
          PartitionAgrees(mesh, nodes[Head(queue) + 1].primitive_list,
                          nodes[Head(queue) + 1].aabb,
                          BestSplit(mesh, nodes[Head(queue) + 1].primitive_list,
                                    nodes[Head(queue) + 1].aabb))
    /\ \A k \in Leaves(nodes) : nodes[k].primitive_list # << >>

\* C22: tight boxes.  In every built hierarchy the box of a Leaf is the
\* componentwise min/max union of the boxes of exactly the faces in its
\* primitive_list, and the box of a NonLeaf is the union of the boxes of its two
\* children.
AabbTight ==
    Built => \A k \in 1..Len(nodes) :
        IF nodes[k].kind = "Leaf"
        THEN nodes[k].aabb =
                 MergeAll({face_aabb_cache(mesh, nodes[k].primitive_list[j]) :
                              j \in 1..Len(nodes[k].primitive_list)})
        ELSE nodes[k].aabb =
                 MergeAll({nodes[nodes[k].left + 1].aabb, nodes[nodes[k].right + 1].aabb})

\* C22 witness: a built hierarchy in which a NonLeaf has two leaves with boxes
\* smaller than its own, one of them of more than one face
TightChildrenBuilt ==
    /\ pc = "built"
    /\ \E k \in 1..Len(nodes) :
          /\ nodes[k].kind = "NonLeaf"
          /\ nodes[nodes[k].left + 1].kind = "Leaf"
          /\ nodes[nodes[k].right + 1].kind = "Leaf"
          /\ nodes[nodes[k].left + 1].aabb # nodes[k].aabb
          /\ nodes[nodes[k].right + 1].aabb # nodes[k].aabb
          /\ Len(nodes[nodes[k].left + 1].primitive_list) > 1

\* the (axis, boundary) pairs in the order the loops of split_node visit them
Boundaries == (0..2) \X (1..(BUCKET_COUNT - 2))

VisitedBefore(p, q) == p[1] < q[1] \/ (p[1] = q[1] /\ p[2] < q[2])

\* what the loop body makes of every (axis, boundary) pair of a leaf
CandidateTable(m, plist, root_aabb) ==
    [p \in Boundaries |->
        Candidate(Buckets(m, plist, p[1], root_aabb), root_aabb, p[1], p[2])]

\* the pairs whose two aggregates are both non-empty
Valid(tab) == {p \in Boundaries : tab[p].tag = "candidate"}

\* p is the first pair of least cost
FirstMinimum(tab, p) ==
    \A q \in Valid(tab) :
        /\ ~CostLess(tab[q].best_split_cost, tab[p].best_split_cost)
        /\ VisitedBefore(q, p) => CostLess(tab[p].best_split_cost, tab[q].best_split_cost)

\* best is what the first pair of least cost gives
SelectsFirstMinimum(tab, best) ==
    /\ tab = tab
    /\ Valid(tab) # {} =>
          \E p \in Valid(tab) : FirstMinimum(tab, p) /\ best = tab[p]

\* C23: split selection.  Among the (axis, boundary) pairs with two non-empty
\* aggregates split_node selects one of least cost, and of several of least
\* cost the first in axis-then-boundary order.
SplitSelection ==
    SplitDue =>
        SelectsFirstMinimum(CandidateTable(mesh, nodes[Head(queue) + 1].primitive_list,
                                           nodes[Head(queue) + 1].aabb),
                            BestSplit(mesh, nodes[Head(queue) + 1].primitive_list,
                                      nodes[Head(queue) + 1].aabb))

\* two pairs of the table have the least cost, and a third has a greater one
TiedMinimum(tab) ==
    /\ tab = tab
    /\ \E p \in Valid(tab) : \E q \in Valid(tab) : \E w \in Valid(tab) :
          /\ FirstMinimum(tab, p)
          /\ q # p
          /\ tab[q].best_split_cost = tab[p].best_split_cost
          /\ CostLess(tab[p].best_split_cost, tab[w].best_split_cost)

\* C23 witness: split_node is about to run on a leaf that has several pairs of
\* least cost and pairs of greater cost
SelectionWithTie ==
    /\ SplitDue
    /\ TiedMinimum(CandidateTable(mesh, nodes[Head(queue) + 1].primitive_list,
                                  nodes[Head(queue) + 1].aabb))

\* on each of the three axes all face centroids of the leaf fall into one bin
OneBinOnEveryAxis(m, plist, root_aabb) ==
    \A axis \in 0..2 : \A j \in 1..Len(plist) : \A k \in 1..Len(plist) :
        bucket_index(m, plist[j], axis, root_aabb)
            = bucket_index(m, plist[k], axis, root_aabb)

\* what C24 asks of the outcome of split_node on a leaf
FailsOnlyIfDegenerate(tag, degenerate) ==
    /\ tag = "None" => degenerate
    /\ ~degenerate => tag = "Some"

\* C24: a split fails only when it is truly degenerate.  split_node returns None
\* for a leaf only if on each axis all its face centroids are in one bin, and
\* whenever two faces are in different bins on some axis it returns Some.
SplitFailsOnlyWhenDegenerate ==
    SplitDue =>
        FailsOnlyIfDegenerate(split_node(nodes, mesh, Head(queue)).tag,
                              OneBinOnEveryAxis(mesh, nodes[Head(queue) + 1].primitive_list,
                                                nodes[Head(queue) + 1].aabb))

\* C24, the part that holds: split_node returns None exactly for the leaves whose
\* face centroids are in one bin on each axis
SplitNoneIffDegenerate ==
    SplitDue =>
        (split_node(nodes, mesh, Head(queue)).tag = "None"
            <=> OneBinOnEveryAxis(mesh, nodes[Head(queue) + 1].primitive_list,
                                  nodes[Head(queue) + 1].aabb))

\* C24, the failing case reached: the centroids are in different bins and
\* split_node has panicked
SpreadLeafPanicked ==
    /\ pc = "build_panicked"
    /\ ~OneBinOnEveryAxis(mesh, nodes[1].primitive_list, nodes[1].aabb)

\* the entry distance of the box of node k (0-based index) for the running query
EntryT(k) == intersects_ray(nodes[k + 1], transformed_ray(ray, transform), transform)

\* C25: traversal order, in both modes.  A step that expands a NonLeaf pops it
\* and pushes both its children, whatever their boxes report; when both boxes
\* are hit the nearer child is pushed last.  A NonLeaf whose box is hit and that
\* is not pruned is expanded.  The stack only loses its top, whose box is tested
\* when it is popped, and the traversal returns only on an empty stack: so the
\* nearer child is popped before the other and no pushed child is dropped.
TraversalOrder ==
    [][/\ (InLoop /\ Len(stack') = Len(stack) + 1) =>
             /\ nodes[Top + 1].kind = "NonLeaf"
             /\ { stack'[Len(stack)], stack'[Len(stack) + 1] }
                    = { nodes[Top + 1].left, nodes[Top + 1].right }
             /\ stack'[Len(stack)] # stack'[Len(stack) + 1]
             /\ (IsSome(EntryT(nodes[Top + 1].left)) /\ IsSome(EntryT(nodes[Top + 1].right)))
                    => Unwrap(EntryT(stack'[Len(stack) + 1]))
                           <= Unwrap(EntryT(stack'[Len(stack)]))
       /\ (/\ InLoop /\ pc' = pc
           /\ nodes[Top + 1].kind = "NonLeaf"
           /\ IsSome(TopT) /\ ~Pruned(Unwrap(TopT)))
             => Len(stack') = Len(stack) + 1
       /\ (InLoop /\ stack' # stack) =>
             /\ SubSeq(stack', 1, Len(stack) - 1) = Rest
             /\ Len(examined') > Len(examined)
             /\ examined'[Len(examined) + 1] = Top
       /\ (pc \in {"fast", "precise"} /\ pc' = "returned") => stack = << >>
      ]_vars

\* C25 witness: the root has been expanded, both children's boxes are hit, the
\* left one nearer, and the left child is on top of the right child
NearerChildOnTop ==
    /\ pc \in {"fast", "precise"}
    /\ nodes[1].kind = "NonLeaf"
    /\ stack = << nodes[1].right, nodes[1].left >>
    /\ IsSome(EntryT(nodes[1].left))
    /\ IsSome(EntryT(nodes[1].right))
    /\ Unwrap(EntryT(nodes[1].left)) < Unwrap(EntryT(nodes[1].right))

\* the indices whose box has been tested so far in the running query
Examined == {examined[k] : k \in 1..Len(examined)}

\* C26: traversal termination and read-only access.  On every hierarchy the
\* builder returns, a traversal in either mode comes to its end; no index is on
\* the stack twice and an index is pushed only if it was never pushed before
\* (every pushed index has its box tested in the same step, the root when it is
\* popped); every index on the stack is an index of the node array; and no
\* query step changes the node array or the mesh.
TraversalTerminates ==
    /\ (pc \in {"fast", "precise"}) ~> (pc \in {"returned", "query_panicked"})
    /\ [](pc \in {"fast", "precise"} =>
            /\ \A j \in 1..Len(stack) : stack[j] \in 0..(Len(nodes) - 1)
            /\ \A j \in 1..Len(stack) : \A k \in 1..Len(stack) :
                  stack[j] = stack[k] => j = k)
    /\ [][(InLoop /\ Len(stack') > Len(stack)) =>
             \A j \in Len(stack)..Len(stack') :
                 /\ stack'[j] \notin Examined
                 /\ stack'[j] # 0
                 /\ \A k \in 1..(Len(stack) - 1) : stack'[j] # stack[k]]_vars
    /\ [][Built => (nodes' = nodes /\ mesh' = mesh)]_vars

\* C26 witness: a precise traversal has returned after expanding the root and
\* scanning a leaf
TraversalReturned ==
    /\ pc = "returned"
    /\ mode = "precise"
    /\ Len(nodes) >= 3
    /\ Len(examined) >= 5
    /\ IsSome(closest)

\* the identity-oriented torus at the origin with the radii of torus
AtOrigin(torus) ==
    [torus EXCEPT !.position = <<0, 0, 0>>, !.orientation = "identity"]

\* the ray in the local frame of the torus: the inverse of the orientation
\* applied to origin - center and to the direction
LocalRay(torus, r) ==
    [r EXCEPT !.origin = mul_vec3(inverse(torus.orientation), Sub(r.origin, torus.position)),
              !.direction = mul_vec3(inverse(torus.orientation), r.direction)]

\* C27: torus local frame.  For every orientation q the call returns what it
\* returns for the identity-oriented torus at the origin and the ray
\* (q^-1 * (origin - center), q^-1 * direction).
TorusLocalFrame ==
    TorusReturned =>
        call.result = Torus_intersets_ray_at(AtOrigin(call.torus),
                                             LocalRay(call.torus, call.ray))

\* C27, the part that holds: the same with q in the place of q^-1, and hence the
\* claim itself for the orientations that are their own inverse
TorusForwardFrame ==
    TorusReturned =>
        /\ call.result =
              Torus_intersets_ray_at(AtOrigin(call.torus),
                  [call.ray EXCEPT
                     !.origin = mul_vec3(call.torus.orientation,
                                         Sub(call.ray.origin, call.torus.position)),
                     !.direction = mul_vec3(call.torus.orientation, call.ray.direction)])
        /\ inverse(call.torus.orientation) = call.torus.orientation
              => call.result = Torus_intersets_ray_at(AtOrigin(call.torus),
                                                      LocalRay(call.torus, call.ray))

\* C27, the failing case reached: the torus at the origin turned a third around
\* (1, 1, 1), whose axis is then z, and the ray from the origin along -z, which
\* runs along that axis through the hole: the call has returned a hit at 0.5
HitThroughTheHole ==
    /\ TorusReturned
    /\ call.torus.position = <<0, 0, 0>>
    /\ call.torus.orientation = "third_turn_xyz"
    /\ call.ray = [origin |-> <<0, 0, 0>>, direction |-> <<0, 0, -1>>, max |-> 2000]
    /\ call.result = Some(1)
    /\ Torus_intersets_ray_at(AtOrigin(call.torus), LocalRay(call.torus, call.ray)) = None

PickMovesFocus ==
    [][(call.fn = "editor" /\ call'.op.name = "click") =>
          /\ (/\ call'.op.fast = call'.op.precise
              /\ IsSome(call'.op.precise)
              /\ Cardinality(call.focused) <= 1)
             => call'.focused = {Unwrap(call'.op.precise)}
          /\ (call'.op.fast = None /\ call'.op.precise = None)
             => call'.focused = call.focused]_vars

NonObjectModeHasFocus ==
    (call.fn = "editor" /\ call.interaction_mode # "Object")
        => (Cardinality(call.focused) = 1 /\ ~call.panicked)

\* C29, the part that holds: set_interaction_mode to Edit or Sculpt without a
\* single focused entity leaves the mode as it was, and with one it sets it.
ModeNeedsFocus ==
    [][(call.fn = "editor" /\ call'.op.name = "set_interaction_mode"
                           /\ call'.op.new_mode # "Object") =>
          IF Cardinality(call.focused) = 1
          THEN call'.interaction_mode = call'.op.new_mode
          ELSE call'.interaction_mode = call.interaction_mode]_vars

\* C29: unfocus was called in Edit or Sculpt mode and took the marker away, and
\* the expect() of the next click failed.
ExpectFailedAfterUnfocus ==
    /\ call.fn = "editor"
    /\ call.panicked
    /\ call.interaction_mode # "Object"
    /\ call.focused = {}

\* the system ids of a sequence of system runs, in the order they ran
SystemsOf(ran) == [k \in 1..Len(ran) |-> ran[k].system]

\* the cleanup system of the tool held by an ActiveTool value, as the sequence
\* of ids to run: one id, or none
CleanupOf(active_tool) ==
    IF IsSome(active_tool) /\ IsSome(Unwrap(active_tool).cleanup_system)
    THEN << Unwrap(Unwrap(active_tool).cleanup_system) >>
    ELSE << >>

\* the startup system of a tool, as the sequence of ids to run
StartupOf(tool) ==
    IF IsSome(tool.startup_system) THEN << Unwrap(tool.startup_system) >> ELSE << >>

\* C30: set_active_tool(T) with T in the registry makes T the active tool; the
\* systems it runs are the cleanup of the previously active tool (once, if it
\* had one) followed by the startup of T (if any), and each of them runs with T
\* already active.  unset_active_tool clears the active tool and runs the
\* cleanup of the previous tool once, with no tool active.  set_active_tool with
\* a type that is not in the registry changes nothing and runs nothing.
ToolSwitchOrdering ==
    [][/\ (call.fn = "editor" /\ call'.op.name = "set_active_tool") =>
             IF call'.op.tool_type \in DOMAIN call.tools
             THEN /\ call'.active_tool = Some(call.tools[call'.op.tool_type])
                  /\ SystemsOf(call'.ran)
                        = CleanupOf(call.active_tool)
                          \o StartupOf(call.tools[call'.op.tool_type])
                  /\ \A k \in 1..Len(call'.ran) :
                        call'.ran[k].active_tool
                            = Some(call.tools[call'.op.tool_type])
             ELSE /\ call'.ran = << >>
                  /\ [call' EXCEPT !.op = NoOp, !.ran = << >>]
                        = [call EXCEPT !.op = NoOp, !.ran = << >>]
       /\ (call.fn = "editor" /\ call'.op.name = "unset_active_tool") =>
             /\ call'.active_tool = None
             /\ SystemsOf(call'.ran) = CleanupOf(call.active_tool)
             /\ \A k \in 1..Len(call'.ran) : call'.ran[k].active_tool = None
             /\ [call' EXCEPT !.op = NoOp, !.ran = << >>, !.active_tool = None]
                   = [call EXCEPT !.op = NoOp, !.ran = << >>, !.active_tool = None]
      ]_vars

\* C30: set_active_tool(Scale) was called while the Move tool was active: the
\* Scale tool is active and the cleanup of the Move tool has run.
SwitchedFromMoveToScale ==
    /\ call.fn = "editor"
    /\ call.op.name = "set_active_tool"
    /\ call.op.tool_type = "Scale"
    /\ call.op.before = Some(register_tools["Move"])
    /\ call.active_tool = Some(register_tools["Scale"])
    /\ SystemsOf(call.ran) = << "translation_tool_cleanup" >>

====
